---------------------------- MODULE Spec2Model ----------------------------
(***************************************************************************)
(* A model of the YourTwin ML model registry                               *)
(* (yourtwin-ml/src/utils/model_registry.py): the in-memory index of a     *)
(* ModelRegistry handle, the persisted registry_index.json, and the        *)
(* per-version artifact directories (model.ckpt + metadata.json); of the   *)
(* inference router built on it (inference/model_inference.py): the        *)
(* bindings of its three capabilities, its requests and its feedback       *)
(* buffer; and of the feature extractor (data/feature_extractor.py).       *)
(*                                                                         *)
(* Version strings are sequences of one-character strings, so that the     *)
(* parsing  [int(i) for i in x[1:].split('.')]  and the formatting         *)
(* f"v{'.'.join(map(str, parts))}"  of _generate_version are computed      *)
(* rather than assumed.                                                    *)
(***************************************************************************)
EXTENDS Integers, Sequences, FiniteSets, TLC

(***************************************************************************)
(* Bounds of the model.                                                    *)
(***************************************************************************)
\* register_model calls in one behaviour (each call reads the clock once).
MaxRegs == 2
\* I/O failures (a write or a removal raising) in one behaviour.
MaxFaults == 1
\* record_feedback calls since the service started.
MaxFeedback == 201
\* The length of a feature vector and the input width of a predictor.
MaxLen == 4
MaxDim == 3
MaxRaw == 7
MaxEdge == 4

\* record_feedback flushes the buffer at this many entries.
FlushAt == 100
\* The time steps over which _predict_with_model repeats the feature vector.
SeqLen == 10

(***************************************************************************)
(* Strings as character sequences.                                         *)
(***************************************************************************)
Digits == <<"0", "1", "2", "3", "4", "5", "6", "7", "8", "9">>

IsDigit(ch) == \E d \in 1..10 : Digits[d] = ch

DigitVal(ch) == (CHOOSE d \in 1..10 : Digits[d] = ch) - 1

\* str(n) for a natural number n.
RECURSIVE Str(_)
Str(n) == IF n < 10 THEN <<Digits[n + 1]>>
          ELSE Str(n \div 10) \o <<Digits[(n % 10) + 1]>>

\* s.split(sep): never empty, empty pieces are kept.
RECURSIVE Split(_, _)
Split(s, sep) ==
    IF \A i \in 1..Len(s) : s[i] # sep
    THEN <<s>>
    ELSE LET i == CHOOSE k \in 1..Len(s) :
                      s[k] = sep /\ \A j \in 1..(k - 1) : s[j] # sep
         IN  <<SubSeq(s, 1, i - 1)>> \o Split(SubSeq(s, i + 1, Len(s)), sep)

\* sep.join(pieces)
RECURSIVE Join(_, _)
Join(pieces, sep) ==
    IF pieces = <<>> THEN <<>>
    ELSE IF Len(pieces) = 1 THEN pieces[1]
    ELSE pieces[1] \o <<sep>> \o Join(Tail(pieces), sep)

\* int(s) on the alphabet of the model (digits, letters, '.'): the value of a
\* non-empty all-digit string (leading zeros allowed), and -1 where int()
\* raises ValueError.
RECURSIVE DigitsValue(_)
DigitsValue(s) == IF s = <<>> THEN 0
                  ELSE 10 * DigitsValue(SubSeq(s, 1, Len(s) - 1)) + DigitVal(s[Len(s)])

ParseInt(s) == IF s = <<>> \/ \E i \in 1..Len(s) : ~IsDigit(s[i])
               THEN -1
               ELSE DigitsValue(s)

\* x[1:]
DropFirst(x) == IF x = <<>> THEN <<>> ELSE Tail(x)

\* The sort key of _generate_version: [int(i) for i in x[1:].split('.')].
VersionKey(x) ==
    LET pieces == Split(DropFirst(x), ".")
    IN  [i \in 1..Len(pieces) |-> ParseInt(pieces[i])]

KeyOk(k) == \A i \in 1..Len(k) : k[i] >= 0

\* Python's list comparison a < b on lists of integers.
RECURSIVE ListLess(_, _)
ListLess(a, b) ==
    IF a = <<>> THEN b # <<>>
    ELSE IF b = <<>> THEN FALSE
    ELSE IF Head(a) # Head(b) THEN Head(a) < Head(b)
    ELSE ListLess(Tail(a), Tail(b))

\* f"v{'.'.join(map(str, parts))}"
FormatVersion(parts) ==
    <<"v">> \o Join([i \in 1..Len(parts) |-> Str(parts[i])], ".")

V100 == <<"v", "1", ".", "0", ".", "0">>
V109 == <<"v", "1", ".", "0", ".", "9">>
Vrc == <<"v", "r", "c">>


(***************************************************************************)
(* Inputs.                                                                 *)
(***************************************************************************)
\* ModelRegistry.MODEL_TYPES, the three of its four entries the inference
\* router loads ('knowledge_graph' is left out).
Types == {"behavior", "anomaly", "learning_path"}

\* The model_type argument a caller passes: a known type or an unknown one.
ReqTypes == Types \cup {"vision"}

\* version=None
None == <<>>

\* The explicit version strings callers pass to register_model: the first
\* version, one whose successor has a two-digit patch, and one that is no
\* number.
ExplicitVersions == {V100, V109, Vrc}

\* The payload of the n-th register_model call that writes a checkpoint (the
\* model's weights with its metrics, config, tags and description).  No
\* branch of the registry reads it; naming it by the call keeps a rewritten
\* file apart from the file it replaced.
Payload(n) == <<"model", n>>

\* hashlib.md5 of the checkpoint file, as an injective image of its content.
Md5(content) == <<"md5", content>>

(***************************************************************************)
(* State.                                                                  *)
(***************************************************************************)
VARIABLES
    index,      \* self.index: model_type -> ordered dict version -> ModelVersion dict
    indexFile,  \* registry_index.json on disk
    disk,       \* the version directories: model_type -> version -> files
    clock,      \* datetime.now(), as a logical clock
    faults,     \* the I/O failures so far
    last,       \* the last call made on the registry and its outcome
    assigned,   \* history: the versions register_model has put in the index
    promoted,   \* history: set_production has changed the index of the type
    pc,         \* where a set_production taken statement by statement stands
    obs,        \* what a concurrent reader of the index saw last
    peer,       \* the index of the other ModelRegistry handle on the same path
    who,        \* the process whose handle `index` is: "service" or "trainer"
    inference,  \* app.py's global: "down" until a ModelInference is built
    enabled,    \* self.config: the capabilities whose 'enabled' is true
    models,     \* self.models: capability -> predictor
    model_versions,  \* self.model_versions: capability -> version string
    use_heuristics,  \* self.use_heuristics: capability -> flag
    feedback_log,    \* self.feedback_log
    loading,    \* where a loader taken statement by statement stands
    req,        \* the request in flight, or the input a function is applied to
    resp        \* the last response of the router, or the result of the function

\* The registry as one caller sees it, the two handles, and the router.
registry == <<index, indexFile, disk, clock, faults, last, assigned, promoted, pc, obs>>

handles == <<peer, who>>

router == <<inference, enabled, models, model_versions, use_heuristics,
            feedback_log, loading, req, resp>>

vars == <<index, indexFile, disk, clock, faults, last, assigned, promoted, pc, obs,
          peer, who, inference, enabled, models, model_versions, use_heuristics,
          feedback_log, loading, req, resp>>

NoCkpt == <<>>

NoMeta == [state |-> "absent", version |-> <<>>, created_at |-> 0,
           info |-> <<>>, is_production |-> FALSE, checksum |-> <<>>]

\* metadata.json truncated by open(..., 'w') and not completely written.
PartialMeta == [NoMeta EXCEPT !.state = "partial"]

\* A version directory just made by mkdir.
EmptyDir(v) == [version |-> v, ckpt |-> NoCkpt, meta |-> NoMeta]

\* The directories of one model type are a set of records, one per version.
DirVersions(dirs) == {d.version : d \in dirs}

Dir(dirs, v) == CHOOSE d \in dirs : d.version = v

\* One directory replaced (or added).
PutDir(dirs, d) == {x \in dirs : x.version # d.version} \cup {d}

\* shutil.rmtree(version_dir)
RemoveDir(dirs, v) == {x \in dirs : x.version # v}

\* checkpoint_path.exists()
HasCkpt(dirs, v) == v \in DirVersions(dirs) /\ Dir(dirs, v).ckpt # NoCkpt

EmptyIndex == [mt \in Types |-> <<>>]

Versions(idx) == {idx[i].version : i \in 1..Len(idx)}

\* self.index[model_type][version]
Entry(idx, v) == idx[CHOOSE i \in 1..Len(idx) : idx[i].version = v]

\* self.index[model_type][version] = entry: a new key goes last, an existing
\* key keeps its place and takes the new value.
PutEntry(idx, e) ==
    IF e.version \in Versions(idx)
    THEN [i \in 1..Len(idx) |-> IF idx[i].version = e.version THEN e ELSE idx[i]]
    ELSE Append(idx, e)

\* del self.index[model_type][version]
DelEntry(idx, v) == SelectSeq(idx, LAMBDA e : e.version # v)

\* The record of a call: auto is register_model's version=None, force is
\* delete_version's flag, existed says whether the version was in the index
\* when the call was made and prev is the production version of the type at
\* that moment (None: there was none).  A call refused for an unknown model
\* type or version is recorded by its op and result alone.
NoCall == [op |-> "none", mt |-> "", version |-> None, auto |-> FALSE,
           force |-> FALSE, fault |-> "none",
           existed |-> FALSE, prev |-> None, result |-> ""]

\* No set_production is under way.
Idle == [at |-> "idle", mt |-> "", version |-> None, prev |-> None, i |-> 0]

\* Nothing has been read yet.
NoObs == [kind |-> "none", mt |-> "", production |-> None, torn |-> FALSE,
          during |-> Idle]

\* The capabilities of the router and the model type each one loads.
Capabilities == {"behavior_prediction", "anomaly_detection", "learning_path"}

ModelType(c) == IF c = "behavior_prediction" THEN "behavior"
                ELSE IF c = "anomaly_detection" THEN "anomaly"
                ELSE "learning_path"

\* The version tags that are no artifact version.
HeuristicV1 == <<"heuristic-v1">>

UnknownVersion == <<"unknown">>

DefaultVersion == <<"default">>

\* A key that is not in self.models, and the value None.
NoKey == [kind |-> "absent", mt |-> "", version |-> None, ckpt |-> <<>>]

NoneModel == [NoKey EXCEPT !.kind = "None"]

\* No loader is under way, no request is in flight, nothing was answered.
NotLoading == [at |-> "idle", i |-> 0, c |-> "", model |-> NoKey,
               version |-> None, flag |-> ""]

NoRequest == [op |-> "none", at |-> "idle", c |-> "", heur |-> FALSE,
              model |-> NoKey]

\* tick alternates with every call made on the router.
NoResponse == [op |-> "none", result |-> "", tick |-> 0, c |-> "", path |-> "",
               tagged |-> FALSE, model_version |-> None, by |-> NoKey,
               value |-> <<>>, met |-> <<>>]

\* Everything but the request in flight.
Quiet ==
    /\ peer = EmptyIndex
    /\ who = "service"
    /\ inference = "down"
    /\ enabled = {}
    /\ models = [c \in Capabilities |-> NoKey]
    /\ model_versions = [c \in Capabilities |-> None]
    /\ use_heuristics = [c \in Capabilities |-> "absent"]
    /\ feedback_log = <<>>
    /\ loading = NotLoading
    /\ resp = NoResponse
    /\ index = EmptyIndex
    /\ indexFile = [state |-> "absent", data |-> EmptyIndex]
    /\ disk = [mt \in Types |-> {}]
    /\ clock = 0
    /\ faults = 0
    /\ last = NoCall
    /\ assigned = [mt \in Types |-> {}]
    /\ promoted = [mt \in Types |-> FALSE]
    /\ pc = Idle
    /\ obs = NoObs

Init == Quiet /\ req = NoRequest

(***************************************************************************)
(* ModelRegistry._generate_version                                         *)
(***************************************************************************)
\* The code point order of the characters of the model.
CharRank(ch) ==
    IF ch = "." THEN 0
    ELSE IF IsDigit(ch) THEN 1 + DigitVal(ch)
    ELSE 11 + (CHOOSE k \in 1..3 : <<"c", "r", "v">>[k] = ch)

\* Python's a < b on strings.
RECURSIVE StrLess(_, _)
StrLess(a, b) ==
    IF a = <<>> THEN b # <<>>
    ELSE IF b = <<>> THEN FALSE
    ELSE IF Head(a) # Head(b) THEN CharRank(Head(a)) < CharRank(Head(b))
    ELSE StrLess(Tail(a), Tail(b))

\* sorted(versions)[-1]: a _generate_version that sorts the version strings
\* themselves, not their integer keys.
LatestByString(idx) ==
    LET i == CHOOSE k \in 1..Len(idx) :
                 \A j \in 1..Len(idx) : ~StrLess(idx[k].version, idx[j].version)
    IN  idx[i].version

\* sorted(versions, key=...)[-1]: a stable sort, so the last of the versions
\* with the greatest key.
LatestByKey(idx) ==
    LET i == CHOOSE k \in 1..Len(idx) :
                 /\ \A j \in 1..Len(idx) :
                        ~ListLess(VersionKey(idx[k].version), VersionKey(idx[j].version))
                 /\ \A j \in (k + 1)..Len(idx) :
                        ListLess(VersionKey(idx[j].version), VersionKey(idx[k].version))
    IN  idx[i].version

\* [ok |-> FALSE] stands for the ValueError int() raises on a piece that is
\* no number.
GenerateVersion(idx) ==
    IF idx = <<>>
    THEN [ok |-> TRUE, version |-> V100]
    ELSE IF \E i \in 1..Len(idx) : ~KeyOk(VersionKey(idx[i].version))
    THEN [ok |-> FALSE, version |-> None]
    ELSE LET parts == VersionKey(LatestByKey(idx))
             n == Len(parts)
         IN  [ok |-> TRUE,
              version |-> FormatVersion([parts EXCEPT ![n] = parts[n] + 1])]

(***************************************************************************)
(* ModelRegistry._save_index, with the ways it can fail.                    *)
(***************************************************************************)
SaveFaults == {"save_open", "save_write"}

\* open(index_path, 'w') truncates the file before json.dump writes it:
\*   "save_open"  open() raises, the file is as it was;
\*   "save_write" the write raises after the truncation, the file is torn.
SaveIndex(idx, fault) ==
    IF fault = "save_open" THEN indexFile
    ELSE IF fault = "save_write" THEN [state |-> "torn", data |-> EmptyIndex]
    ELSE [state |-> "ok", data |-> idx]

Raised(fault) == IF fault \in SaveFaults THEN "IOError" ELSE "ok"

\* A call in which the I/O fails at `fault` ("none": nowhere).
Failing(fault) ==
    IF fault = "none"
    THEN faults' = faults
    ELSE faults < MaxFaults /\ faults' = faults + 1


(***************************************************************************)
(* ModelRegistry.get_production_version                                    *)
(***************************************************************************)
\* A get_production_version that does not look at the flag: the first version.
GetProductionVersionAnyFlag(idx, mt) ==
    IF mt \notin Types THEN None
    ELSE IF idx[mt] = <<>> THEN None
    ELSE idx[mt][1].version

\* The first version, in the order of the dict, whose is_production is true;
\* None when there is none or the type is not in the index.
GetProductionVersion(idx, mt) ==
    IF mt \notin Types THEN None
    ELSE IF \A i \in 1..Len(idx[mt]) : ~idx[mt][i].is_production THEN None
    ELSE LET i == CHOOSE k \in 1..Len(idx[mt]) :
                      /\ idx[mt][k].is_production
                      /\ \A j \in 1..(k - 1) : ~idx[mt][j].is_production
         IN  idx[mt][i].version

(***************************************************************************)
(* ModelRegistry.register_model                                            *)
(***************************************************************************)
RegisterFaults == {"none", "ckpt", "meta"} \cup SaveFaults

\* model_version.to_dict(), with is_production=False.
NewEntry(v, now, m) ==
    [version |-> v, created_at |-> now, info |-> m, is_production |-> FALSE]

\* metadata.json: the entry, the checksum and the checkpoint path.
MetaOf(e, sum) ==
    [state |-> "ok", version |-> e.version, created_at |-> e.created_at,
     info |-> e.info, is_production |-> e.is_production, checksum |-> sum]

\* The index of the model type after  self.index[model_type][version] = ...
RegisterIndex(idx, e) == PutEntry(idx, e)

RegisterModel(mt, version, fault) ==
    LET call == [NoCall EXCEPT !.op = "register", !.mt = mt,
                               !.auto = (version = None), !.fault = fault]
    IN
    /\ clock < MaxRegs
    /\ Failing(fault)
    /\ IF mt \notin Types
       THEN \* raise ValueError(f"Unknown model type: ...")
            /\ fault = "none"
            /\ last' = [NoCall EXCEPT !.op = "register", !.result = "UnknownType"]
            /\ UNCHANGED <<index, indexFile, disk, clock, assigned, promoted>>
       ELSE
       LET gen == IF version = None
                  THEN GenerateVersion(index[mt])
                  ELSE [ok |-> TRUE, version |-> version]
       IN
       IF ~gen.ok
       THEN \* _generate_version raised ValueError: nothing was written
            /\ fault = "none"
            /\ last' = [call EXCEPT !.result = "ValueError"]
            /\ UNCHANGED <<index, indexFile, disk, clock, assigned, promoted>>
       ELSE
       LET v == gen.version
           seen == [call EXCEPT !.version = v,
                                !.existed = (v \in Versions(index[mt])),
                                !.prev = GetProductionVersion(index, mt)]
           \* version_dir.mkdir(parents=True, exist_ok=True)
           made == IF v \in DirVersions(disk[mt])
                   THEN disk[mt]
                   ELSE disk[mt] \cup {EmptyDir(v)}
           \* ms.save_checkpoint(model, checkpoint_path)
           m == Payload(clock + 1)
           saved == PutDir(made, [Dir(made, v) EXCEPT !.ckpt = m])
           e == NewEntry(v, clock + 1, m)
           \* open(metadata_path, 'w') truncates, json.dump writes
           torn == PutDir(saved, [Dir(saved, v) EXCEPT !.meta = PartialMeta])
           written == PutDir(saved, [Dir(saved, v) EXCEPT !.meta = MetaOf(e, Md5(m))])
           idx == [index EXCEPT ![mt] = RegisterIndex(index[mt], e)]
       IN
       IF fault = "ckpt"
       THEN \* save_checkpoint raised before writing the file
            /\ disk' = [disk EXCEPT ![mt] = made]
            /\ last' = [seen EXCEPT !.result = "IOError"]
            /\ UNCHANGED <<index, indexFile, clock, assigned, promoted>>
       ELSE IF fault = "meta"
       THEN \* json.dump of the metadata raised
            /\ disk' = [disk EXCEPT ![mt] = torn]
            /\ clock' = clock + 1
            /\ last' = [seen EXCEPT !.result = "IOError"]
            /\ UNCHANGED <<index, indexFile, assigned, promoted>>
       ELSE /\ disk' = [disk EXCEPT ![mt] = written]
            /\ clock' = clock + 1
            /\ index' = idx
            /\ indexFile' = SaveIndex(idx, fault)
            /\ assigned' = [assigned EXCEPT ![mt] = @ \cup {v}]
            /\ last' = [seen EXCEPT !.result = Raised(fault)]
            /\ UNCHANGED promoted

(***************************************************************************)
(* ModelRegistry.set_production                                            *)
(***************************************************************************)
\* for v in index[model_type].values(): v['is_production'] = False
ClearProduction(idx) ==
    [i \in 1..Len(idx) |-> [idx[i] EXCEPT !.is_production = FALSE]]

\* index[model_type][version]['is_production'] = True
MarkProduction(idx, v) ==
    [i \in 1..Len(idx) |->
        IF idx[i].version = v THEN [idx[i] EXCEPT !.is_production = TRUE] ELSE idx[i]]

\* A set_production without the loop that clears the flags.
PromoteIndexNoClear(idx, v) == MarkProduction(idx, v)

\* The index of the model type after the two assignments of set_production.
PromoteIndex(idx, v) == MarkProduction(ClearProduction(idx), v)

PromoteFaults == {"none"} \cup SaveFaults

SetProduction(mt, version, fault) ==
    LET call == [NoCall EXCEPT !.op = "set_production", !.mt = mt,
                               !.version = version, !.fault = fault]
    IN
    /\ Failing(fault)
    /\ IF mt \notin Types \/ version \notin Versions(index[mt])
       THEN \* raise ValueError(f"Version not found: ...")
            /\ fault = "none"
            /\ last' = [NoCall EXCEPT !.op = "set_production", !.result = "NotFound"]
            /\ UNCHANGED <<index, indexFile, disk, clock, assigned, promoted>>
       ELSE LET idx == [index EXCEPT ![mt] = PromoteIndex(index[mt], version)]
            IN  /\ index' = idx
                /\ indexFile' = SaveIndex(idx, fault)
                /\ promoted' = [promoted EXCEPT ![mt] = TRUE]
                /\ last' = [call EXCEPT
                                !.existed = TRUE,
                                !.prev = GetProductionVersion(index, mt),
                                !.result = Raised(fault)]
                /\ UNCHANGED <<disk, clock, assigned>>


(***************************************************************************)
(* ModelRegistry.delete_version                                            *)
(***************************************************************************)
\* shutil.rmtree can raise after it has removed some of the files:
\*   "rmtree_ckpt" model.ckpt is gone, metadata.json is left;
\*   "rmtree_meta" metadata.json is gone, model.ckpt is left.
RmtreeFaults == {"rmtree_ckpt", "rmtree_meta"}

DeleteFaults == {"none"} \cup RmtreeFaults \cup SaveFaults

\* A check that forgets the force flag.
DeleteRefusedDespiteForce(e, force) == e.is_production

\* The check that protects the production version.
DeleteRefused(e, force) == e.is_production /\ ~force

\* The index of the model type after  del self.index[model_type][version]
DeleteIndex(idx, v) == DelEntry(idx, v)

DeleteVersion(mt, version, force, fault) ==
    LET call == [NoCall EXCEPT !.op = "delete", !.mt = mt,
                               !.version = version, !.force = force,
                               !.fault = fault]
    IN
    Failing(fault) /\
    IF mt \notin Types \/ version \notin Versions(index[mt])
    THEN \* raise ValueError(f"Version not found: ...")
         /\ fault = "none"
         /\ last' = [NoCall EXCEPT !.op = "delete", !.result = "NotFound"]
         /\ UNCHANGED <<index, indexFile, disk, clock, assigned, promoted>>
    ELSE
    LET e == Entry(index[mt], version)
        seen == [call EXCEPT !.existed = TRUE,
                             !.prev = GetProductionVersion(index, mt)]
    IN
    IF DeleteRefused(e, force)
    THEN \* raise ValueError("Cannot delete production version without force=True")
         /\ fault = "none"
         /\ last' = [seen EXCEPT !.result = "Protected"]
         /\ UNCHANGED <<index, indexFile, disk, clock, assigned, promoted>>
    ELSE IF fault \in RmtreeFaults
    THEN \* rmtree raised part-way: the index is not reached
         /\ version \in DirVersions(disk[mt])
         /\ LET d == Dir(disk[mt], version)
            IN  disk' = [disk EXCEPT ![mt] =
                    PutDir(@, IF fault = "rmtree_ckpt"
                              THEN [d EXCEPT !.ckpt = NoCkpt]
                              ELSE [d EXCEPT !.meta = NoMeta])]
         /\ last' = [seen EXCEPT !.result = "IOError"]
         /\ UNCHANGED <<index, indexFile, clock, assigned, promoted>>
    ELSE LET idx == [index EXCEPT ![mt] = DeleteIndex(index[mt], version)]
         IN  /\ disk' = [disk EXCEPT ![mt] = RemoveDir(@, version)]
             /\ index' = idx
             /\ indexFile' = SaveIndex(idx, fault)
             /\ last' = [seen EXCEPT !.result = Raised(fault)]
             /\ UNCHANGED <<clock, assigned, promoted>>

(***************************************************************************)
(* ModelRegistry.get_model (model_class=None) and list_versions: reads.    *)
(***************************************************************************)
\* The outcome of get_model(model_type, version): the checkpoint path of the
\* resolved version ("ok"), or the exception raised.
GetModelResult(idx, dirs, mt, version) ==
    LET v == IF version = None THEN GetProductionVersion(idx, mt) ELSE version
    IN  IF v = None
        THEN [result |-> "NoProductionVersion", version |-> None]
        ELSE IF mt \notin Types \/ ~HasCkpt(dirs[mt], v)
        THEN [result |-> "FileNotFoundError", version |-> v]
        ELSE IF Dir(dirs[mt], v).meta.state = "absent"
        THEN [result |-> "FileNotFoundError", version |-> v]
        ELSE IF Dir(dirs[mt], v).meta.state = "partial"
        THEN [result |-> "JSONDecodeError", version |-> v]
        ELSE [result |-> "ok", version |-> v]

\* versions.sort(key=created_at, reverse=True) over the index entries
\* (tags=None): the version strings, newest first.
RECURSIVE NewestFirst(_)
NewestFirst(es) ==
    IF es = {} THEN <<>>
    ELSE LET e == CHOOSE x \in es : \A y \in es : y.created_at <= x.created_at
         IN  <<e.version>> \o NewestFirst(es \ {e})

ListVersions(idx, mt) ==
    IF mt \notin Types THEN <<>>
    ELSE NewestFirst({idx[mt][i] : i \in 1..Len(idx[mt])})

(***************************************************************************)
(* ModelRegistry.__init__ on the same registry_path (the process starts    *)
(* again): the index is read back from registry_index.json.                *)
(***************************************************************************)
\* _load_index; json.load raises on a torn file and no registry is built.
LoadIndex == IF indexFile.state = "ok" THEN indexFile.data ELSE EmptyIndex

Restart ==
    /\ indexFile.state # "torn"
    /\ index' = LoadIndex
    /\ last' = [NoCall EXCEPT !.op = "restart", !.result = "ok"]
    /\ UNCHANGED <<indexFile, disk, clock, faults, assigned, promoted>>

(***************************************************************************)
(* The registry used by one caller at a time.                              *)
(***************************************************************************)
\* The version strings a caller can name: the explicit ones and whatever the
\* index or the storage holds.
Known(mt) ==
    ExplicitVersions \cup
    (IF mt \in Types THEN Versions(index[mt]) \cup DirVersions(disk[mt]) ELSE {})

\* Every call succeeds in its I/O.
Next ==
    \/ \E mt \in ReqTypes, v \in ExplicitVersions \cup {None} :
          RegisterModel(mt, v, "none") /\ UNCHANGED <<pc, obs, handles, router>>
    \/ \E mt \in ReqTypes :
          \E v \in Known(mt) : SetProduction(mt, v, "none") /\ UNCHANGED <<pc, obs, handles, router>>
    \/ \E mt \in ReqTypes, force \in BOOLEAN :
          \E v \in Known(mt) : DeleteVersion(mt, v, force, "none") /\ UNCHANGED <<pc, obs, handles, router>>
    \/ Restart /\ UNCHANGED <<pc, obs, handles, router>>

Spec == Init /\ [][Next]_vars

\* The same calls, where a write or a removal may raise.
NextFaults ==
    \/ \E mt \in ReqTypes, v \in ExplicitVersions \cup {None}, f \in RegisterFaults :
          RegisterModel(mt, v, f) /\ UNCHANGED <<pc, obs, handles, router>>
    \/ \E mt \in ReqTypes, f \in PromoteFaults :
          \E v \in Known(mt) : SetProduction(mt, v, f) /\ UNCHANGED <<pc, obs, handles, router>>
    \/ \E mt \in ReqTypes, force \in BOOLEAN, f \in DeleteFaults :
          \E v \in Known(mt) : DeleteVersion(mt, v, force, f) /\ UNCHANGED <<pc, obs, handles, router>>
    \/ Restart /\ UNCHANGED <<pc, obs, handles, router>>

SpecFaults == Init /\ [][NextFaults]_vars

(***************************************************************************)
(* set_production statement by statement, beside readers of the index: a   *)
(* thread that calls get_production_version on the same handle, and a      *)
(* process that loads registry_index.json.  The registry takes no lock and *)
(* _save_index writes the index file in place.                             *)
(***************************************************************************)
\* The check of lines 290-291; a version that is there starts the call.
PromoteBegin(mt, version) ==
    /\ pc.at = "idle"
    /\ IF mt \notin Types \/ version \notin Versions(index[mt])
       THEN /\ last' = [NoCall EXCEPT !.op = "set_production", !.result = "NotFound"]
            /\ UNCHANGED pc
       ELSE /\ pc' = [at |-> "clear", mt |-> mt, version |-> version,
                      prev |-> GetProductionVersion(index, mt), i |-> 1]
            /\ UNCHANGED last
    /\ UNCHANGED <<index, indexFile, disk, clock, faults, assigned, promoted, obs>>

\* One turn of the loop: v['is_production'] = False
PromoteClear ==
    /\ pc.at = "clear"
    /\ pc.i <= Len(index[pc.mt])
    /\ index' = [index EXCEPT ![pc.mt][pc.i].is_production = FALSE]
    /\ pc' = [pc EXCEPT !.i = @ + 1]
    /\ UNCHANGED <<indexFile, disk, clock, faults, last, assigned, promoted, obs>>

\* self.index[model_type][version]['is_production'] = True
PromoteMark ==
    /\ pc.at = "clear"
    /\ pc.i > Len(index[pc.mt])
    /\ index' = [index EXCEPT ![pc.mt] = MarkProduction(@, pc.version)]
    /\ pc' = [pc EXCEPT !.at = "open"]
    /\ UNCHANGED <<indexFile, disk, clock, faults, last, assigned, promoted, obs>>

\* _save_index: open(self.index_path, 'w') empties the file
PromoteOpen ==
    /\ pc.at = "open"
    /\ indexFile' = [state |-> "torn", data |-> EmptyIndex]
    /\ pc' = [pc EXCEPT !.at = "write"]
    /\ UNCHANGED <<index, disk, clock, faults, last, assigned, promoted, obs>>

\* _save_index: json.dump has written the whole index; the call returns
PromoteWrite ==
    /\ pc.at = "write"
    /\ indexFile' = [state |-> "ok", data |-> index]
    /\ promoted' = [promoted EXCEPT ![pc.mt] = TRUE]
    /\ last' = [NoCall EXCEPT !.op = "set_production", !.mt = pc.mt,
                              !.version = pc.version, !.existed = TRUE,
                              !.prev = pc.prev, !.result = "ok"]
    /\ pc' = Idle
    /\ UNCHANGED <<index, disk, clock, faults, assigned, obs>>

\* Another thread calls get_production_version(mt) on the handle.
ReadProduction(mt) ==
    /\ obs' = [kind |-> "flag", mt |-> mt,
               production |-> GetProductionVersion(index, mt),
               torn |-> FALSE, during |-> pc]
    /\ UNCHANGED <<index, indexFile, disk, clock, faults, last, assigned, promoted, pc>>

\* Another process runs _load_index on the registry path.
ReadIndexFile ==
    /\ obs' = [kind |-> "file", mt |-> "", production |-> None,
               torn |-> (indexFile.state = "torn"), during |-> pc]
    /\ UNCHANGED <<index, indexFile, disk, clock, faults, last, assigned, promoted, pc>>

NextSteps ==
    \/ \E mt \in Types, v \in ExplicitVersions \cup {None} :
          pc.at = "idle" /\ RegisterModel(mt, v, "none") /\ UNCHANGED <<pc, obs, handles, router>>
    \/ \E mt \in ReqTypes : \E v \in Known(mt) : PromoteBegin(mt, v) /\ UNCHANGED <<handles, router>>
    \/ PromoteClear /\ UNCHANGED <<handles, router>>
    \/ PromoteMark /\ UNCHANGED <<handles, router>>
    \/ PromoteOpen /\ UNCHANGED <<handles, router>>
    \/ PromoteWrite /\ UNCHANGED <<handles, router>>
    \/ \E mt \in Types : ReadProduction(mt) /\ UNCHANGED <<handles, router>>
    \/ ReadIndexFile /\ UNCHANGED <<handles, router>>

SpecSteps == Init /\ [][NextSteps]_vars

(***************************************************************************)
(* Properties.                                                             *)
(***************************************************************************)
\* The versions of an index (of one model type) flagged production.
Production(idx) == {idx[i].version : i \in {k \in 1..Len(idx) : idx[k].is_production}}

\* C1: in every reachable state each model type has at most one version whose
\* is_production flag is true, in the index of the handle and in the index
\* file it has saved.
AtMostOneProduction ==
    \A mt \in Types :
        /\ Cardinality(Production(index[mt])) <= 1
        /\ indexFile.state = "ok" => Cardinality(Production(indexFile.data[mt])) <= 1

\* C1, its case: set_production has just moved the flag from one version of a
\* type to another, and the type has one production version.
AtMostOneProductionWitness ==
    /\ last.op = "set_production" /\ last.result = "ok"
    /\ last.prev # None /\ last.prev # last.version
    /\ last.prev \in Versions(index[last.mt])
    /\ Production(index[last.mt]) = {last.version}

\* C2: once set_production has succeeded for a model type, the type has
\* exactly one production version in every later state.
ExactlyOneProductionAfterPromote ==
    \A mt \in Types : promoted[mt] => Cardinality(Production(index[mt])) = 1

\* C3: while no set_production has happened for a model type, get_model with
\* version=None fails with the no-production-version error, however many
\* versions are registered; right after set_production(v) it resolves to v
\* and no other version of the type is flagged production.
GetResolvesProduction ==
    \A mt \in Types :
        /\ ~promoted[mt] =>
              GetModelResult(index, disk, mt, None).result = "NoProductionVersion"
        /\ (last.op = "set_production" /\ last.mt = mt /\ last.result = "ok") =>
              /\ GetModelResult(index, disk, mt, None) =
                     [result |-> "ok", version |-> last.version]
              /\ \A i \in 1..Len(index[mt]) :
                     index[mt][i].is_production <=> index[mt][i].version = last.version

\* C3, its case: set_production(v2) has just succeeded on a type whose
\* production version was another version v, which is still registered.
GetResolvesProductionWitness ==
    /\ last.op = "set_production" /\ last.result = "ok"
    /\ last.prev # None /\ last.prev # last.version
    /\ last.prev \in Versions(index[last.mt])
    /\ GetModelResult(index, disk, last.mt, None).version = last.version
    /\ ~Entry(index[last.mt], last.prev).is_production


\* C4: register_model with an explicit version string that is already in the
\* index of the type fails with a version-conflict error and leaves the
\* index, the index file and the stored artifacts as they were.
RegisterNeverOverwrites ==
    [][(last'.op = "register" /\ ~last'.auto /\ last'.existed) =>
          /\ last'.result = "VersionConflict"
          /\ UNCHANGED <<index, indexFile, disk>>]_vars

\* A version directory that holds a checkpoint and the metadata document with
\* the checkpoint's checksum.
StoredWhole(dirs, v) ==
    /\ v \in DirVersions(dirs)
    /\ Dir(dirs, v).ckpt # NoCkpt
    /\ Dir(dirs, v).meta.state = "ok"
    /\ Dir(dirs, v).meta.checksum = Md5(Dir(dirs, v).ckpt)

IndexMatchesStorage(idx) ==
    \A mt \in Types :
        \A v \in Versions(idx[mt]) \cup DirVersions(disk[mt]) :
            v \in Versions(idx[mt]) <=> StoredWhole(disk[mt], v)

\* C5: in every reachable state, also after a call that failed part-way, a
\* version is in the index (the handle's, and the one a new handle reads
\* from the index file) if and only if its directory with model.ckpt and
\* checksummed metadata exists.
IndexStorageConsistent ==
    /\ IndexMatchesStorage(index)
    /\ indexFile.state # "torn" => IndexMatchesStorage(LoadIndex)

\* C6: a version assigned automatically by register_model is strictly greater
\* than every version assigned before for the type, so no version string
\* comes back after its deletion.
AssignedVersionsMonotonic ==
    [][(last'.op = "register" /\ last'.auto /\ last'.result = "ok") =>
          \A w \in assigned[last'.mt] :
              ListLess(VersionKey(w), VersionKey(last'.version))]_vars

\* g is a numerically greatest version of the index.
Greatest(idx, g) ==
    /\ g \in Versions(idx)
    /\ \A w \in Versions(idx) : ~ListLess(VersionKey(g), VersionKey(w))

\* v is g with its last component, the patch, one higher.
PatchBumped(g, v) ==
    LET a == VersionKey(g)
        b == VersionKey(v)
    IN  /\ Len(b) = Len(a)
        /\ \A i \in 1..(Len(a) - 1) : b[i] = a[i]
        /\ b[Len(a)] = a[Len(a)] + 1
        /\ v[1] = "v"

\* The version register_model is to assign on an index.
NextVersionRule(idx, v) ==
    /\ idx = <<>> => v = V100
    /\ idx # <<>> => \E g \in Versions(idx) : Greatest(idx, g) /\ PatchBumped(g, v)
    /\ v \notin Versions(idx)

InSeq(s, x) == \E i \in 1..Len(s) : s[i] = x

\* C8: delete_version on the production version with force=False fails with
\* the protected-version error and changes nothing; any other delete_version
\* of a registered version succeeds, removes the directory and the index
\* entry together, the version is gone from list_versions, and no other
\* entry, flag or directory changes.
DeleteProtectsProduction ==
    [][(last'.op = "delete" /\ last'.existed) =>
          LET mt == last'.mt
              v == last'.version
          IN  IF last'.prev = v /\ ~last'.force
              THEN /\ last'.result = "Protected"
                   /\ UNCHANGED <<index, indexFile, disk>>
              ELSE last'.fault = "none" =>
                   /\ last'.result = "ok"
                   /\ v \notin Versions(index'[mt])
                   /\ v \notin DirVersions(disk'[mt])
                   /\ ~InSeq(ListVersions(index', mt), v)
                   /\ indexFile' = [state |-> "ok", data |-> index']
                   /\ Versions(index'[mt]) = Versions(index[mt]) \ {v}
                   /\ \A w \in Versions(index'[mt]) :
                          Entry(index'[mt], w) = Entry(index[mt], w)
                   /\ disk'[mt] = {d \in disk[mt] : d.version # v}
                   /\ \A o \in Types \ {mt} : index'[o] = index[o] /\ disk'[o] = disk[o]]_vars

\* C8, its case: the production version was deleted with force=True while
\* another version of the type stays registered.
DeleteProtectsProductionWitness ==
    /\ last.op = "delete" /\ last.force /\ last.result = "ok"
    /\ last.prev = last.version
    /\ last.version \notin Versions(index[last.mt])
    /\ index[last.mt] # <<>>

\* C9: get_model(model_type, version) succeeds only for a version that is in
\* the index and whose checkpoint exists: it fails for a version that is not
\* in the index, directory or not, and fails with the not-found error for an
\* indexed version without its checkpoint.
GetModelNeedsIndexedBlob ==
    \A mt \in Types :
        \A v \in Known(mt) :
            LET r == GetModelResult(index, disk, mt, v)
            IN  /\ r.result = "ok" =>
                       v \in Versions(index[mt]) /\ HasCkpt(disk[mt], v)
                /\ (v \in Versions(index[mt]) /\ ~HasCkpt(disk[mt], v)) =>
                       r.result = "FileNotFoundError"


\* C10: a set_production that goes through moves the flag in one step: a
\* reader that looks at the index while the call runs sees the production
\* version of before the call or the new one, and the index file it loads is
\* never half-written.
PromoteIsOneStep ==
    /\ (obs.kind = "flag" /\ obs.during.at # "idle" /\ obs.mt = obs.during.mt) =>
           obs.production \in {obs.during.prev, obs.during.version}
    /\ obs.kind = "file" => ~obs.torn

\* C10, the part the code keeps: set_production on a version that is not in
\* the index raises the not-found error and changes nothing, so the
\* production version keeps its flag; a call that goes through leaves the
\* target flagged and no other version of the type.
PromoteRefusedChangesNothing ==
    [][/\ (last'.op = "set_production" /\ last'.result = "NotFound") =>
              UNCHANGED <<index, indexFile, disk>>
       /\ (last'.op = "set_production" /\ last'.result = "ok") =>
              /\ last'.version \in Versions(index[last'.mt])
              /\ Production(index'[last'.mt]) = {last'.version}]_vars

(***************************************************************************)
(* Two ModelRegistry handles on the same registry_path: the service's      *)
(* singleton (get_registry) and the handle of another process, such as the *)
(* training side.  Each one read registry_index.json when it was built and *)
(* works on its own copy since; _save_index writes the copy of the caller. *)
(* `index` is the copy of the handle that makes the calls, `peer` the copy *)
(* of the other one.                                                       *)
(***************************************************************************)
Other(w) == IF w = "service" THEN "trainer" ELSE "service"

\* The next call is made through the other handle.
SwitchHandle ==
    /\ index' = peer
    /\ peer' = index
    /\ who' = Other(who)
    /\ UNCHANGED <<indexFile, disk, clock, faults, last, assigned, promoted, pc, obs>>

\* The index held by the service's singleton.
ServiceIndex == IF who = "service" THEN index ELSE peer

\* Writers on both handles, one whole call at a time.
NextHandles ==
    \/ \E mt \in Types, v \in {V100, None} :
          RegisterModel(mt, v, "none") /\ UNCHANGED <<pc, obs, handles, router>>
    \/ \E mt \in Types :
          \E v \in Versions(index[mt]) \cup {V100} :
              SetProduction(mt, v, "none") /\ UNCHANGED <<pc, obs, handles, router>>
    \/ \E mt \in Types, force \in BOOLEAN :
          \E v \in Versions(index[mt]) \cup {V100} :
              DeleteVersion(mt, v, force, "none") /\ UNCHANGED <<pc, obs, handles, router>>
    \/ Restart /\ UNCHANGED <<pc, obs, handles, router>>
    \/ SwitchHandle /\ UNCHANGED router

SpecHandles == Init /\ [][NextHandles]_vars

\* C11: writers do not undo each other: a version that is in the persisted
\* index stays in it through every call of every handle except the
\* delete_version that removes it, and a production flag in the persisted
\* index is taken away only by a set_production or a delete_version on its
\* model type or by registering that version again.
NoLostUpdate ==
    [][\A mt \in Types : \A v \in Versions(indexFile.data[mt]) :
          /\ (last'.op = "delete" /\ last'.mt = mt /\ last'.version = v)
             \/ v \in Versions(indexFile'.data[mt])
          /\ v \in Production(indexFile.data[mt]) =>
                \/ last'.mt = mt /\ last'.op \in {"set_production", "delete"}
                \/ last'.mt = mt /\ last'.op = "register" /\ last'.version = v
                \/ v \in Production(indexFile'.data[mt])]_vars

(***************************************************************************)
(* ModelInference: the load step.                                          *)
(***************************************************************************)
\* self.models, self.model_versions and self.use_heuristics as one value.
Bindings == [models |-> models, model_versions |-> model_versions,
             use_heuristics |-> use_heuristics]

\* The three dicts of __init__, empty.
NoBindings == [models |-> [c \in Capabilities |-> NoKey],
               model_versions |-> [c \in Capabilities |-> None],
               use_heuristics |-> [c \in Capabilities |-> "absent"]]

\* The capability whose predictor cannot be built from its artifact in this
\* load (model_class(**config), load_checkpoint, set_train, AnomalyDetector
\* or agent.load raises), "" for none.
Broken == Capabilities \cup {""}

\* The body of a loader's try block, up to the assignments: the production
\* version it read and "ok", or what stopped it.
TryLoad(idx, dirs, c, broken) ==
    LET mt == ModelType(c)
        prod == GetProductionVersion(idx, mt)
    IN  IF prod = None
        THEN [result |-> "NoProduction", version |-> None]
        ELSE IF c = "learning_path" /\ prod \notin Versions(idx[mt])
        THEN \* get_version_info
             [result |-> "ValueError", version |-> prod]
        ELSE LET got == GetModelResult(idx, dirs, mt, prod)
             IN  IF got.result # "ok"
                 THEN [result |-> got.result, version |-> prod]
                 ELSE IF broken = c
                 THEN [result |-> "BuildError", version |-> prod]
                 ELSE [result |-> "ok", version |-> prod]

\* The predictor built from the checkpoint of a version.
Predictor(dirs, mt, v) ==
    [kind |-> "model", mt |-> mt, version |-> v, ckpt |-> Dir(dirs[mt], v).ckpt]

\* The three assignments of a loader that got its predictor.
Trained(B, c, model, v) ==
    [models |-> [B.models EXCEPT ![c] = model],
     model_versions |-> [B.model_versions EXCEPT ![c] = v],
     use_heuristics |-> [B.use_heuristics EXCEPT ![c] = "False"]]

\* A fallback that leaves the version of the earlier load in place.
HeuristicKeepsVersion(B, c) ==
    [models |-> [B.models EXCEPT ![c] = NoneModel],
     model_versions |-> B.model_versions,
     use_heuristics |-> [B.use_heuristics EXCEPT ![c] = "True"]]

\* "Fallback to heuristics"
Heuristic(B, c) ==
    [models |-> [B.models EXCEPT ![c] = NoneModel],
     model_versions |-> [B.model_versions EXCEPT ![c] = HeuristicV1],
     use_heuristics |-> [B.use_heuristics EXCEPT ![c] = "True"]]

\* A try block that lets every exception through.
CatchesNothing(result) == FALSE

\* except Exception: whatever the try block raised is caught.
Catches(result) == TRUE

\* _load_behavior_model, _load_anomaly_model, _load_learning_path_model
LoadModel(B, idx, dirs, c, broken) ==
    LET t == TryLoad(idx, dirs, c, broken)
    IN  IF t.result = "ok"
        THEN Trained(B, c, Predictor(dirs, ModelType(c), t.version), t.version)
        ELSE Heuristic(B, c)

\* The order in which _load_models calls the loaders.
LoadOrder == <<"behavior_prediction", "anomaly_detection", "learning_path">>

\* _load_models from the i-th loader on: the bindings it leaves, and whether
\* a loader raised.
RECURSIVE LoadModels(_, _, _, _, _, _)
LoadModels(B, i, cfg, idx, dirs, broken) ==
    IF i > Len(LoadOrder) THEN [B |-> B, raised |-> FALSE]
    ELSE LET c == LoadOrder[i]
             t == TryLoad(idx, dirs, c, broken)
         IN  IF c \notin cfg
             THEN LoadModels(B, i + 1, cfg, idx, dirs, broken)
             ELSE IF t.result \notin {"ok", "NoProduction"} /\ ~Catches(t.result)
             THEN [B |-> B, raised |-> TRUE]
             ELSE LoadModels(LoadModel(B, idx, dirs, c, broken), i + 1,
                             cfg, idx, dirs, broken)

\* The configurations: every capability enabled, or learning_path disabled.
Configs == {Capabilities, Capabilities \ {"learning_path"}}

\* The response of a load: c is the capability whose predictor could not be
\* built in it.
Response(op, result, broken) ==
    [NoResponse EXCEPT !.op = op, !.result = result, !.tick = 1 - resp.tick,
                       !.c = broken]

\* The service process starts: init_services builds a ModelInference, whose
\* __init__ gets the registry singleton (a new ModelRegistry, which reads
\* registry_index.json) and runs _load_models.
StartService(cfg, broken) ==
    /\ loading.at = "idle" /\ req.at = "idle"
    /\ IF indexFile.state = "torn"
       THEN \* json.load raises in _load_index
            /\ inference' = "down"
            /\ enabled' = {}
            /\ models' = NoBindings.models
            /\ model_versions' = NoBindings.model_versions
            /\ use_heuristics' = NoBindings.use_heuristics
            /\ resp' = Response("init", "JSONDecodeError", broken)
            /\ UNCHANGED <<index, peer>>
       ELSE \E done \in {LoadModels(NoBindings, 1, cfg, LoadIndex, disk, broken)} :
                /\ IF who = "service"
                   THEN index' = LoadIndex /\ UNCHANGED peer
                   ELSE peer' = LoadIndex /\ UNCHANGED index
                /\ inference' = IF done.raised THEN "down" ELSE "up"
                /\ enabled' = cfg
                /\ models' = done.B.models
                /\ model_versions' = done.B.model_versions
                /\ use_heuristics' = done.B.use_heuristics
                /\ resp' = Response("init", IF done.raised THEN "raised" ELSE "ok", broken)
    /\ feedback_log' = <<>>
    /\ UNCHANGED <<indexFile, disk, clock, faults, last, assigned, promoted, pc, obs,
                   who, loading, req>>

\* reload_models
ReloadModels(broken) ==
    /\ inference = "up"
    /\ loading.at = "idle"
    /\ \E done \in {LoadModels(Bindings, 1, enabled, ServiceIndex, disk, broken)} :
           /\ models' = done.B.models
           /\ model_versions' = done.B.model_versions
           /\ use_heuristics' = done.B.use_heuristics
           /\ resp' = Response("reload", IF done.raised THEN "raised" ELSE "ok", broken)
    /\ UNCHANGED <<registry, handles, inference, enabled, feedback_log, loading, req>>

(***************************************************************************)
(* ModelInference: the capability requests.                                *)
(***************************************************************************)
Requests == {"predict_success", "detect_anomalies", "get_optimal_path",
             "get_personalized_hint"}

\* The capability a request is served by ("": get_personalized_hint uses no
\* predictor).
CapabilityOf(op) == IF op = "predict_success" THEN "behavior_prediction"
                    ELSE IF op = "detect_anomalies" THEN "anomaly_detection"
                    ELSE IF op = "get_optimal_path" THEN "learning_path"
                    ELSE ""

\* What extract_student_features does for the request: it returns a feature
\* set, returns nothing, or raises.
Extractions == {"ok", "empty", "raise"}

\* What the computation of the result does: it returns or raises.
Computations == {"ok", "raise"}

\* The probabilities a prediction comes to, in thousandths.
Probabilities == {200, 900}

\* _get_risk_level
GetRiskLevel(p) == IF p >= 800 THEN "low" ELSE IF p >= 500 THEN "medium" ELSE "high"

\* self.use_heuristics.get(c, True)
UseHeuristics(B, c) == B.use_heuristics[c] # "False"

\* self.models.get(c)
ModelOf(B, c) == IF B.models[c].kind = "absent" THEN NoneModel ELSE B.models[c]

\* self.model_versions.get(c, dflt)
VersionOf(B, c, dflt) ==
    IF B.model_versions[c] = None THEN dflt ELSE B.model_versions[c]

\* _default_prediction, _default_learning_path, _default_anomaly_result,
\* _default_hint_suggestion: only the first carries a 'model_version'.
DefaultResult(op) ==
    IF op = "predict_success"
    THEN [path |-> "default", tagged |-> TRUE, model_version |-> DefaultVersion,
          by |-> NoKey, value |-> <<500, 0, "unknown">>]
    ELSE [path |-> "default", tagged |-> FALSE, model_version |-> None,
          by |-> NoKey, value |-> <<>>]

\* The value of a computed result: for predict_success the probability, the
\* confidence abs(p - 0.5) * 2 and the risk level.
Computed(op, p) ==
    IF op = "predict_success"
    THEN <<p, 2 * (IF p >= 500 THEN p - 500 ELSE 500 - p), GetRiskLevel(p)>>
    ELSE <<>>

\* The result dict of a request: heur and model are what the request read
\* from self.use_heuristics and self.models, B the bindings at the moment the
\* result is built (its 'model_version' is read then).
Produce(op, heur, model, B, extract, compute, p) ==
    LET c == CapabilityOf(op)
    IN  IF extract # "ok" \/ compute = "raise"
        THEN DefaultResult(op)
        ELSE IF op = "get_personalized_hint"
        THEN [path |-> "profile", tagged |-> FALSE, model_version |-> None,
              by |-> NoKey, value |-> <<>>]
        ELSE IF ~heur /\ model.kind = "model"
        THEN \* _predict_with_model, _detect_with_model, _get_path_with_model
             [path |-> "trained", tagged |-> TRUE,
              model_version |-> VersionOf(B, c, UnknownVersion),
              by |-> model, value |-> Computed(op, p)]
        ELSE \* _predict_with_heuristics reads the version, the other two
             \* write 'heuristic-v1'
             [path |-> "heuristic", tagged |-> TRUE,
              model_version |-> IF op = "predict_success"
                                THEN VersionOf(B, c, HeuristicV1)
                                ELSE HeuristicV1,
              by |-> NoKey,
              value |-> Computed(op, p)]

\* A request handler without its try block.
RequestCatchesNothing(extract, compute) == FALSE

\* except Exception around the whole body of a request handler.
RequestCatches(extract, compute) == TRUE

\* The response made of a result; met is what the request met.
Respond(op, r, extract, compute) ==
    [op |-> op,
     result |-> IF (extract = "raise" \/ compute = "raise")
                   /\ ~RequestCatches(extract, compute)
                THEN "raised" ELSE "ok",
     tick |-> 1 - resp.tick, c |-> CapabilityOf(op),
     path |-> r.path, tagged |-> r.tagged, model_version |-> r.model_version,
     by |-> r.by, value |-> r.value, met |-> <<extract, compute>>]

\* predict_success, detect_anomalies, get_optimal_path, get_personalized_hint
\* as one step each.
Request(op, extract, compute, p) ==
    /\ inference = "up"
    /\ req.at = "idle"
    /\ LET c == CapabilityOf(op)
       IN  resp' = Respond(op, Produce(op,
                                       IF c = "" THEN TRUE ELSE UseHeuristics(Bindings, c),
                                       IF c = "" THEN NoneModel ELSE ModelOf(Bindings, c),
                                       Bindings, extract, compute, p),
                           extract, compute)
    /\ UNCHANGED <<registry, handles, inference, enabled, models, model_versions,
                   use_heuristics, feedback_log, loading, req>>

(***************************************************************************)
(* The service (the router on the registry singleton) beside a training    *)
(* process that registers, promotes and deletes through its own handle.    *)
(***************************************************************************)
\* The calls of the training process.
Training ==
    /\ who = "trainer"
    /\ \/ \E mt \in Types : RegisterModel(mt, None, "none")
       \/ \E mt \in Types, f \in {"none", "save_write"} :
             \E v \in Versions(index[mt]) : SetProduction(mt, v, f)
       \/ \E mt \in Types :
             \E v \in Versions(index[mt]) : DeleteVersion(mt, v, TRUE, "none")
    /\ UNCHANGED <<pc, obs, handles, router>>

\* The service is started, restarted and told to reload; it makes no call
\* that writes the registry, so the calls go through the trainer's handle.
NextRouter ==
    \/ Training
    \/ who = "service" /\ SwitchHandle /\ UNCHANGED router
    \/ \E cfg \in Configs, b \in Broken : StartService(cfg, b)
    \/ \E b \in Broken : ReloadModels(b)

SpecRouter == Init /\ [][NextRouter]_vars

\* What a request meets: no features, a failing extraction, a failing
\* computation, or a result.
RequestInputs ==
    {<<"empty", "ok", 200>>, <<"raise", "ok", 200>>, <<"ok", "raise", 200>>}
    \cup {<<"ok", "ok", p>> : p \in Probabilities}

\* The service answers requests; versions are registered and promoted
\* through its own registry handle.
NextRequests ==
    \/ \E mt \in Types :
          RegisterModel(mt, None, "none") /\ UNCHANGED <<pc, obs, handles, router>>
    \/ \E mt \in Types :
          \E v \in Versions(index[mt]) :
              SetProduction(mt, v, "none") /\ UNCHANGED <<pc, obs, handles, router>>
    \/ \E cfg \in Configs : StartService(cfg, "")
    \/ ReloadModels("")
    \/ \E op \in Requests, i \in RequestInputs : Request(op, i[1], i[2], i[3])

SpecRequests == Init /\ [][NextRequests]_vars

(***************************************************************************)
(* Properties of the router.                                               *)
(***************************************************************************)
\* The artifact of a version is whole and the predictor of capability c can
\* be built from it in the load that has just run.
ArtifactLoads(dirs, c, v) ==
    /\ HasCkpt(dirs[ModelType(c)], v)
    /\ Dir(dirs[ModelType(c)], v).meta.state = "ok"
    /\ resp.c # c

TrainedBound(c, v) ==
    /\ models[c].kind = "model"
    /\ models[c].version = v
    /\ model_versions[c] = v
    /\ use_heuristics[c] = "False"

HeuristicBound(c) ==
    /\ models[c] = NoneModel
    /\ model_versions[c] = HeuristicV1
    /\ use_heuristics[c] = "True"

\* Every enabled capability is bound as the index `idx` and the storage say.
BoundBy(idx) ==
    \A c \in enabled :
        LET P == Production(idx[ModelType(c)])
        IN  IF \E v \in P : ArtifactLoads(disk, c, v)
            THEN \E v \in P : TrainedBound(c, v)
            ELSE HeuristicBound(c)

BoundByProduction == BoundBy(ServiceIndex)

\* The step is a call of the router of one of the kinds `ops`.
RouterCall(ops) == resp'.tick # resp.tick /\ resp'.op \in ops

\* C12: the start of the service and reload_models always complete, and they
\* leave every enabled capability trained-bound to the production version of
\* the registry when there is one and its artifact loads, and heuristic-bound
\* with heuristic-v1 otherwise.
LoadAlwaysBinds ==
    [][RouterCall({"init", "reload"}) =>
          /\ resp'.result = "ok"
          /\ inference' = "up"
          /\ BoundByProduction']_vars

\* C12, the part the code keeps: a ModelInference that got its registry is
\* bound by the production versions.
StartBindsByProduction ==
    [][(RouterCall({"init"}) /\ resp'.result # "JSONDecodeError") =>
          /\ resp'.result = "ok"
          /\ inference' = "up"
          /\ BoundByProduction']_vars

\* C13: reload_models completes and binds every enabled capability by its own
\* load: one whose predictor cannot be loaded is heuristic-bound, one whose
\* production artifact loads is trained-bound, whatever happened to the
\* others.
ReloadBindsEachByItsOwnLoad ==
    [][RouterCall({"reload"}) =>
          /\ resp'.result = "ok"
          /\ BoundByProduction']_vars

\* C13, its case: in the reload that has just run the predictor of one
\* capability could not be built from its production artifact, and a
\* capability loaded after it is trained-bound.
ReloadBindsEachByItsOwnLoadWitness ==
    /\ resp.op = "reload"
    /\ resp.c = "behavior_prediction"
    /\ Production(ServiceIndex["behavior"]) # {}
    /\ HeuristicBound("behavior_prediction")
    /\ \E v \in Production(ServiceIndex["anomaly"]) : TrainedBound("anomaly_detection", v)

(***************************************************************************)
(* reload_models statement by statement beside a request served by another *)
(* thread of the service.  The router takes no lock: a loader assigns      *)
(* self.models, self.model_versions and self.use_heuristics one after the  *)
(* other, and a request reads them one after the other.                    *)
(***************************************************************************)
\* _load_models reaches its i-th loader, which runs up to its assignments:
\* the values it is about to assign (those of the fallback when the try block
\* did not get a predictor).
RECURSIVE Enter(_)
Enter(i) ==
    IF i > Len(LoadOrder) THEN NotLoading
    ELSE LET c == LoadOrder[i]
             t == TryLoad(ServiceIndex, disk, c, "")
         IN  IF c \notin enabled THEN Enter(i + 1)
             ELSE IF t.result = "ok"
             THEN [at |-> "models", i |-> i, c |-> c,
                   model |-> Predictor(disk, ModelType(c), t.version),
                   version |-> t.version, flag |-> "False"]
             ELSE [at |-> "models", i |-> i, c |-> c, model |-> NoneModel,
                   version |-> HeuristicV1, flag |-> "True"]

\* reload_models is called.
ReloadBegin ==
    /\ inference = "up"
    /\ loading.at = "idle"
    /\ loading' = Enter(1)
    /\ UNCHANGED <<registry, handles, inference, enabled, models, model_versions,
                   use_heuristics, feedback_log, req, resp>>

\* self.models[c] = model   (or None)
LoaderAssignModel ==
    /\ loading.at = "models"
    /\ models' = [models EXCEPT ![loading.c] = loading.model]
    /\ loading' = [loading EXCEPT !.at = "versions"]
    /\ UNCHANGED <<registry, handles, inference, enabled, model_versions,
                   use_heuristics, feedback_log, req, resp>>

\* self.model_versions[c] = prod_version   (or 'heuristic-v1')
LoaderAssignVersion ==
    /\ loading.at = "versions"
    /\ model_versions' = [model_versions EXCEPT ![loading.c] = loading.version]
    /\ loading' = [loading EXCEPT !.at = "flag"]
    /\ UNCHANGED <<registry, handles, inference, enabled, models,
                   use_heuristics, feedback_log, req, resp>>

\* self.use_heuristics[c] = False   (or True); the next loader is entered
LoaderAssignFlag ==
    /\ loading.at = "flag"
    /\ use_heuristics' = [use_heuristics EXCEPT ![loading.c] = loading.flag]
    /\ loading' = Enter(loading.i + 1)
    /\ UNCHANGED <<registry, handles, inference, enabled, models,
                   model_versions, feedback_log, req, resp>>

\* A request has its features and tests self.use_heuristics.get(c, True).
RequestBegin(op) ==
    /\ inference = "up"
    /\ req.at = "idle"
    /\ LET c == CapabilityOf(op)
           heur == UseHeuristics(Bindings, c)
       IN  req' = [op |-> op, at |-> IF heur THEN "build" ELSE "model",
                   c |-> c, heur |-> heur, model |-> NoneModel]
    /\ UNCHANGED <<registry, handles, inference, enabled, models, model_versions,
                   use_heuristics, feedback_log, loading, resp>>

\* _predict_with_model and its likes: self.models.get(c)
RequestModel ==
    /\ req.at = "model"
    /\ req' = [req EXCEPT !.at = "build", !.model = ModelOf(Bindings, req.c)]
    /\ UNCHANGED <<registry, handles, inference, enabled, models, model_versions,
                   use_heuristics, feedback_log, loading, resp>>

\* The result dict is built and returned.
RequestBuild(p) ==
    /\ req.at = "build"
    /\ resp' = Respond(req.op, Produce(req.op, req.heur, req.model, Bindings,
                                       "ok", "ok", p), "ok", "ok")
    /\ req' = NoRequest
    /\ UNCHANGED <<registry, handles, inference, enabled, models, model_versions,
                   use_heuristics, feedback_log, loading>>

NextReload ==
    \/ \E mt \in Types :
          /\ loading.at = "idle" /\ req.at = "idle"
          /\ RegisterModel(mt, None, "none")
          /\ UNCHANGED <<pc, obs, handles, router>>
    \/ \E mt \in Types :
          \E v \in Versions(index[mt]) :
              /\ loading.at = "idle" /\ req.at = "idle"
              /\ SetProduction(mt, v, "none")
              /\ UNCHANGED <<pc, obs, handles, router>>
    \/ StartService(Capabilities, "")
    \/ ReloadBegin
    \/ LoaderAssignModel
    \/ LoaderAssignVersion
    \/ LoaderAssignFlag
    \/ \E op \in Requests \ {"get_personalized_hint"} : RequestBegin(op)
    \/ RequestModel
    \/ \E p \in {900} : RequestBuild(p)

SpecReload == Init /\ [][NextReload]_vars

\* C14: a response of predict_success, detect_anomalies or get_optimal_path
\* comes from one binding: the heuristic answers with heuristic-v1 and a
\* predictor answers with the version it was loaded from.
RequestSeesOneBinding ==
    /\ resp.path = "heuristic" => resp.model_version = HeuristicV1
    /\ resp.path = "trained" => resp.model_version = resp.by.version

\* The production versions registry_index.json records for a model type.
Persisted(mt) == IF indexFile.state = "ok" THEN Production(indexFile.data[mt]) ELSE {}

\* C15: after reload_models every enabled capability is bound to the version
\* the registry storage records as production, whichever handle promoted it,
\* provided its artifact loads.
ReloadFollowsPromotion ==
    [][RouterCall({"reload"}) =>
          \A c \in enabled' : \A v \in Persisted(ModelType(c))' :
              ArtifactLoads(disk, c, v)' => TrainedBound(c, v)']_vars

\* C15, the part the code keeps: the bindings change at the start of the
\* service and in reload_models only.
BindingsChangeOnlyAtLoad ==
    [][<<models, model_versions, use_heuristics>>' # <<models, model_versions, use_heuristics>>
          => RouterCall({"init", "reload"})]_vars

\* C16: a request never raises to its caller and never changes the
\* bindings, and when the extraction returns nothing or raises, or the
\* computation of the result raises, it returns its default response (for
\* predict_success: probability 0.5, confidence 0, risk level 'unknown').
RequestsNeverRaise ==
    [][RouterCall(Requests) =>
          /\ resp'.result = "ok"
          /\ UNCHANGED <<inference, enabled, models, model_versions, use_heuristics>>
          /\ resp'.met # <<"ok", "ok">> =>
                /\ resp'.path = "default"
                /\ resp'.by = NoKey
                /\ resp'.op = "predict_success" => resp'.value = <<500, 0, "unknown">>]_vars

\* C16, its case: the predictor call of a trained-bound predict_success has
\* raised and the default prediction was returned.
RequestsNeverRaiseWitness ==
    /\ resp.op = "predict_success"
    /\ resp.met = <<"ok", "raise">>
    /\ resp.path = "default"
    /\ \E v \in Versions(ServiceIndex["behavior"]) : TrainedBound("behavior_prediction", v)

\* C17: every result of predict_success, detect_anomalies and
\* get_optimal_path carries a model_version, which is heuristic-v1 exactly
\* when the heuristic computed the result and the version of the bound
\* artifact when the trained predictor computed it.
ResultsCarryProducer ==
    resp.op \in Requests \ {"get_personalized_hint"} =>
        /\ resp.tagged
        /\ resp.path = "heuristic" <=> resp.model_version = HeuristicV1
        /\ resp.path = "trained" =>
              /\ resp.model_version = resp.by.version
              /\ TrainedBound(resp.c, resp.model_version)

\* C17, the part the code keeps: the results the heuristic or the predictor
\* computed are tagged with their producer.
ComputedResultsCarryProducer ==
    (resp.op \in Requests \ {"get_personalized_hint"} /\ resp.path # "default") =>
        /\ resp.tagged
        /\ resp.path = "heuristic" <=> resp.model_version = HeuristicV1
        /\ resp.path = "trained" =>
              /\ resp.model_version = resp.by.version
              /\ TrainedBound(resp.c, resp.model_version)

(***************************************************************************)
(* ModelInference.record_feedback                                          *)
(***************************************************************************)
\* The record_feedback calls the service has answered since it started.
Recorded == IF resp.op = "record_feedback" THEN resp.value[1] ELSE 0

\* A flush one entry late.
ShouldFlushAbove(n) == n > FlushAt

\* if len(self.feedback_log) >= 100
ShouldFlush(n) == n >= FlushAt

\* record_feedback, with _save_feedback_log: the payload of the n-th call is
\* stamped and appended, and the buffer is emptied when it is full.
RecordFeedback ==
    /\ inference = "up"
    /\ Recorded < MaxFeedback
    /\ LET n == Recorded + 1
           log == Append(feedback_log, [feedback |-> n, recorded_at |-> n])
       IN  /\ feedback_log' = IF ShouldFlush(Len(log)) THEN <<>> ELSE log
           /\ resp' = [NoResponse EXCEPT
                          !.op = "record_feedback", !.result = "ok",
                          !.tick = 1 - resp.tick, !.value = <<n>>,
                          !.path = IF ShouldFlush(Len(log)) THEN "flushed" ELSE "kept"]
    /\ UNCHANGED <<registry, handles, inference, enabled, models, model_versions,
                   use_heuristics, loading, req>>

NextFeedback ==
    \/ StartService(Capabilities, "")
    \/ RecordFeedback

SpecFeedback == Init /\ [][NextFeedback]_vars

\* C18: the buffer always holds fewer than 100 entries; after the n-th
\* record_feedback call it holds n modulo 100 entries, the call has flushed
\* the buffer exactly when n is a multiple of 100, and otherwise it has
\* appended its payload.
FeedbackFlushedAtHundred ==
    [][/\ Len(feedback_log') < 100
       /\ RouterCall({"record_feedback"}) =>
             LET n == resp'.value[1]
             IN  /\ n = Recorded + 1
                 /\ Len(feedback_log') = n % 100
                 /\ resp'.path = "flushed" <=> n % 100 = 0
                 /\ resp'.path # "flushed" =>
                       /\ Len(feedback_log') = Len(feedback_log) + 1
                       /\ feedback_log'[Len(feedback_log')].feedback = n]_vars

\* C18, its case: the 200th call has just flushed the buffer a second time.
FeedbackFlushedAtHundredWitness ==
    /\ resp.op = "record_feedback"
    /\ resp.value = <<200>>
    /\ resp.path = "flushed"
    /\ feedback_log = <<>>

(***************************************************************************)
(* The trained path: the input handed to the predictor.                    *)
(***************************************************************************)
\* s[:n]
Take(s, n) == SubSeq(s, 1, IF n < Len(s) THEN n ELSE Len(s))

\* [0.0] * n  (empty for n <= 0)
Zeros(n) == [i \in 1..n |-> 0]

\* _predict_with_model: the sequence of SeqLen rows made of the feature
\* vector, which is adapted only when it is empty or shorter than input_dim.
PredictInput(fv, dim) ==
    LET cut == IF fv # <<>> THEN Take(fv, dim) ELSE Zeros(dim)
        row == IF fv = <<>> \/ Len(fv) < dim
               THEN cut \o Zeros(dim - Len(cut))
               ELSE fv
    IN  [t \in 1..SeqLen |-> row]

\* _detect_with_model: pad, then cut
DetectInput(fv, dim) ==
    LET padded == IF Len(fv) < dim THEN fv \o Zeros(dim - Len(fv)) ELSE fv
    IN  <<Take(padded, dim)>>

\* _get_path_with_model: cut, then np.pad
PathInput(fv, dim) ==
    LET state == Take(fv, dim)
    IN  <<IF Len(state) < dim THEN state \o Zeros(dim - Len(state)) ELSE state>>

\* The feature vectors (of values 1 and 2) of every length up to MaxLen.
FeatureVectors == UNION {[1..n -> {1, 2}] : n \in 0..MaxLen}

\* A request on the trained path: its feature vector and the input width the
\* bound predictor declares (input_dim, state_dim).
ShapeInputs ==
    {[op |-> op, at |-> "input", c |-> CapabilityOf(op), heur |-> FALSE,
      model |-> NoKey, feature_vector |-> fv, input_dim |-> d] :
        op \in Requests \ {"get_personalized_hint"},
        fv \in FeatureVectors, d \in 1..MaxDim}

InitShapes == Quiet /\ req \in ShapeInputs

\* The input is prepared for the predictor.
PrepareInput ==
    /\ req.at = "input"
    /\ resp.op = "none"
    /\ resp' = [NoResponse EXCEPT
                   !.op = req.op, !.tick = 1, !.c = req.c, !.path = "trained",
                   !.value = IF req.op = "predict_success"
                             THEN PredictInput(req.feature_vector, req.input_dim)
                             ELSE IF req.op = "detect_anomalies"
                             THEN DetectInput(req.feature_vector, req.input_dim)
                             ELSE PathInput(req.feature_vector, req.input_dim)]
    /\ UNCHANGED <<registry, handles, inference, enabled, models, model_versions,
                   use_heuristics, feedback_log, loading, req>>

NextShapes == PrepareInput

SpecShapes == InitShapes /\ [][NextShapes]_vars

\* Every row handed to the predictor has the width w.
RowsOfWidth(rows, w) == \A i \in 1..Len(rows) : Len(rows[i]) = w

\* C19: the input handed to the predictor has the predictor's declared input
\* width whatever the length of the feature vector, in predict_success (over
\* 10 time steps), detect_anomalies and get_optimal_path.
InputHasDeclaredWidth ==
    resp.op # "none" =>
        /\ RowsOfWidth(resp.value, req.input_dim)
        /\ Len(resp.value) = IF resp.op = "predict_success" THEN 10 ELSE 1

\* C19, the part the code keeps: detect_anomalies and get_optimal_path cut and
\* pad to the declared width, and predict_success does when the vector is
\* not longer than it.
InputHasDeclaredWidthUnlessLonger ==
    (resp.op # "none" /\ (resp.op # "predict_success"
                          \/ Len(req.feature_vector) <= req.input_dim)) =>
        /\ RowsOfWidth(resp.value, req.input_dim)
        /\ \A i \in 1..Len(resp.value) : \A k \in 1..req.input_dim :
              resp.value[i][k] = IF k <= Len(req.feature_vector)
                                 THEN req.feature_vector[k] ELSE 0

(***************************************************************************)
(* FeatureExtractor.extract_student_features.  Numbers are in tenths (80   *)
(* is 800, 0.3 is 3); a quotient is cut to the tenth.                      *)
(***************************************************************************)
\* FEATURE_DEFINITIONS, in the order of the dicts.
FEATURE_DEFINITIONS ==
    [behavioral |->
        [avg_typing_speed |-> [min |-> 0, max |-> 3000, default |-> 800],
         avg_thinking_pause |-> [min |-> 0, max |-> 600, default |-> 50],
         paste_frequency |-> [min |-> 0, max |-> 10, default |-> 1],
         active_time_percentage |-> [min |-> 0, max |-> 1000, default |-> 800],
         tab_switch_rate |-> [min |-> 0, max |-> 500, default |-> 50],
         idle_time_percentage |-> [min |-> 0, max |-> 1000, default |-> 100],
         error_frequency |-> [min |-> 0, max |-> 10, default |-> 3]],
     performance |->
        [success_rate |-> [min |-> 0, max |-> 1000, default |-> 500],
         avg_score |-> [min |-> 0, max |-> 1000, default |-> 500],
         difficulty_level |-> [min |-> 0, max |-> 30, default |-> 10],
         time_per_problem |-> [min |-> 0, max |-> 1200, default |-> 300],
         attempt_count |-> [min |-> 10, max |-> 200, default |-> 20],
         completion_rate |-> [min |-> 0, max |-> 1000, default |-> 500]],
     ai_interaction |->
        [hint_request_rate |-> [min |-> 0, max |-> 10, default |-> 3],
         avg_hint_level |-> [min |-> 10, max |-> 50, default |-> 20],
         ai_dependency_score |-> [min |-> 0, max |-> 10, default |-> 3],
         hints_before_success |-> [min |-> 0, max |-> 100, default |-> 10],
         comprehension_pass_rate |-> [min |-> 0, max |-> 1000, default |-> 800]],
     temporal |->
        [session_duration |-> [min |-> 0, max |-> 1800, default |-> 600],
         days_since_last_session |-> [min |-> 0, max |-> 300, default |-> 10],
         learning_velocity |-> [min |-> 0, max |-> 1000, default |-> 500],
         weekly_sessions |-> [min |-> 0, max |-> 70, default |-> 20]]]

Categories == <<"behavioral", "performance", "ai_interaction", "temporal">>

\* The statistics a StudentTwin document can hold, by their path in the
\* document, with the value each one has when it is there (the completed
\* counts are plain numbers).
FullTwin ==
    {<<"behavioralData.avgTypingSpeed", 1200>>,
     <<"behavioralData.avgThinkingPause", 90>>,
     <<"behavioralData.errorFrequency", 5>>,
     <<"behavioralData.aiDependencyScore", 7>>,
     <<"aiDependencyPattern.hintRequestRate", 6>>,
     <<"aiDependencyPattern.avgHintLevel", 40>>,
     <<"learningVelocity", 700>>,
     <<"difficultyStats.hard.completed", 1>>}

\* The twins: none (or an empty document), a full one, and the ones with a
\* single statistic.
Twins == {{}, FullTwin} \cup {{stat} : stat \in FullTwin}

\* twin.get(...).get(key, dflt)
Get(twin, key, dflt) ==
    IF \E stat \in twin : stat[1] = key
    THEN (CHOOSE stat \in twin : stat[1] = key)[2]
    ELSE dflt

\* The records of the window in each collection: none, or these.
Monitorings ==
    {<<>>,
     <<[pasteCount |-> 2, totalActiveTime |-> 60000, tabSwitchCount |-> 3,
        totalIdleTime |-> 6000]>>}

Submissions ==
    {<<>>,
     <<[status |-> "passed", score |-> 80, activityId |-> "a1", age |-> 3],
       [status |-> "failed", score |-> 40, activityId |-> "a1", age |-> 9]>>,
     <<[status |-> "failed", score |-> 0, activityId |-> "a2", age |-> 45]>>}

HintRequests ==
    {<<>>,
     <<[hintLevel |-> 3, ledToSuccess |-> TRUE, passed |-> TRUE]>>}

\* sum(r.get(field, 0) for r in records)
RECURSIVE Sum(_, _)
Sum(records, field) ==
    IF records = <<>> THEN 0
    ELSE Head(records)[field] + Sum(Tail(records), field)

\* sum(1 for r in records if r.get(field) == value)
RECURSIVE Count(_, _, _)
Count(records, field, value) ==
    IF records = <<>> THEN 0
    ELSE (IF Head(records)[field] = value THEN 1 ELSE 0)
         + Count(Tail(records), field, value)

\* x or 1
OrOne(x) == IF x = 0 THEN 1 ELSE x

\* _calculate_paste_frequency
CalculatePasteFrequency(records) ==
    IF records = <<>> THEN 1
    ELSE (10 * Sum(records, "pasteCount")) \div Len(records)

\* _extract_behavioral_features
ExtractBehavioralFeatures(twin, records) ==
    IF records = <<>>
    THEN [avg_typing_speed |-> Get(twin, "behavioralData.avgTypingSpeed", 800),
          avg_thinking_pause |-> Get(twin, "behavioralData.avgThinkingPause", 50),
          paste_frequency |-> CalculatePasteFrequency(<<>>),
          active_time_percentage |-> 800,
          tab_switch_rate |-> 50,
          idle_time_percentage |-> 100,
          error_frequency |-> Get(twin, "behavioralData.errorFrequency", 3)]
    ELSE LET total_pastes == Sum(records, "pasteCount")
             total_time == Sum(records, "totalActiveTime")
             total_tab_switches == Sum(records, "tabSwitchCount")
             total_idle == Sum(records, "totalIdleTime")
             session_count == OrOne(Len(records))
         IN  [avg_typing_speed |-> Get(twin, "behavioralData.avgTypingSpeed", 800),
              avg_thinking_pause |-> Get(twin, "behavioralData.avgThinkingPause", 50),
              paste_frequency |-> (10 * total_pastes) \div session_count,
              active_time_percentage |->
                  1000 - (1000 * total_idle) \div OrOne(total_time),
              tab_switch_rate |-> (10 * total_tab_switches) \div session_count,
              idle_time_percentage |-> (1000 * total_idle) \div OrOne(total_time),
              error_frequency |-> Get(twin, "behavioralData.errorFrequency", 3)]

\* _extract_performance_features
ExtractPerformanceFeatures(twin, submissions) ==
    IF submissions = <<>>
    THEN [success_rate |-> 500,
          avg_score |-> 500,
          difficulty_level |-> 10,
          time_per_problem |-> 300,
          attempt_count |-> 10,
          completion_rate |-> 500]
    ELSE LET passed == Count(submissions, "status", "passed")
             success_rate == (1000 * passed) \div Len(submissions)
             activities == {submissions[i].activityId : i \in 1..Len(submissions)}
             hard == Get(twin, "difficultyStats.hard.completed", 0)
             medium == Get(twin, "difficultyStats.medium.completed", 0)
         IN  [success_rate |-> success_rate,
              avg_score |-> (10 * Sum(submissions, "score")) \div Len(submissions),
              difficulty_level |-> IF hard > 0 THEN 20
                                   ELSE IF medium > 0 THEN 10 ELSE 0,
              time_per_problem |-> 300,
              attempt_count |-> (10 * Len(submissions)) \div Cardinality(activities),
              completion_rate |-> success_rate]

\* _extract_ai_features
ExtractAiFeatures(twin, hints) ==
    IF hints = <<>>
    THEN [hint_request_rate |-> Get(twin, "aiDependencyPattern.hintRequestRate", 3),
          avg_hint_level |-> Get(twin, "aiDependencyPattern.avgHintLevel", 20),
          ai_dependency_score |-> Get(twin, "behavioralData.aiDependencyScore", 3),
          hints_before_success |-> 10,
          comprehension_pass_rate |-> 800]
    ELSE LET total_hints == Len(hints)
             successful_hints == Count(hints, "ledToSuccess", TRUE)
             comprehension_passed == Count(hints, "passed", TRUE)
         IN  [hint_request_rate |->
                  Get(twin, "aiDependencyPattern.hintRequestRate", total_hints),
              avg_hint_level |-> (10 * Sum(hints, "hintLevel")) \div total_hints,
              ai_dependency_score |-> Get(twin, "behavioralData.aiDependencyScore", 3),
              hints_before_success |-> (10 * total_hints) \div OrOne(successful_hints),
              comprehension_pass_rate |-> (1000 * comprehension_passed) \div total_hints]

\* _extract_temporal_features; the submissions come newest first
ExtractTemporalFeatures(twin, submissions) ==
    IF submissions = <<>>
    THEN [session_duration |-> 600,
          days_since_last_session |-> 70,
          learning_velocity |-> Get(twin, "learningVelocity", 500),
          weekly_sessions |-> 20]
    ELSE LET weekly == Cardinality({i \in 1..Len(submissions) : submissions[i].age <= 7})
         IN  [session_duration |-> 600,
              days_since_last_session |-> 10 * submissions[1].age,
              learning_velocity |-> Get(twin, "learningVelocity", 500),
              weekly_sessions |-> 10 * (IF weekly < 7 THEN weekly ELSE 7)]


\* The keys in another order than the extractors return them.
ReturnedOutOfOrder ==
    [behavioral |-> <<"error_frequency", "avg_thinking_pause", "paste_frequency",
                      "active_time_percentage", "tab_switch_rate",
                      "idle_time_percentage", "avg_typing_speed">>,
     performance |-> <<"success_rate", "avg_score", "difficulty_level",
                       "time_per_problem", "attempt_count", "completion_rate">>,
     ai_interaction |-> <<"hint_request_rate", "avg_hint_level",
                          "ai_dependency_score", "hints_before_success",
                          "comprehension_pass_rate">>,
     temporal |-> <<"session_duration", "days_since_last_session",
                    "learning_velocity", "weekly_sessions">>]

\* The keys of the dict each category extractor returns, in their order.
FeatureNames ==
    [behavioral |-> <<"avg_typing_speed", "avg_thinking_pause", "paste_frequency",
                      "active_time_percentage", "tab_switch_rate",
                      "idle_time_percentage", "error_frequency">>,
     performance |-> <<"success_rate", "avg_score", "difficulty_level",
                       "time_per_problem", "attempt_count", "completion_rate">>,
     ai_interaction |-> <<"hint_request_rate", "avg_hint_level",
                          "ai_dependency_score", "hints_before_success",
                          "comprehension_pass_rate">>,
     temporal |-> <<"session_duration", "days_since_last_session",
                    "learning_velocity", "weekly_sessions">>]

\* (value - min_val) / (max_val - min_val) in thousandths, cut downwards; the
\* divisor is made positive first
Quotient(value, min_val, max_val) ==
    IF max_val > min_val
    THEN (1000 * (value - min_val)) \div (max_val - min_val)
    ELSE (1000 * (min_val - value)) \div (min_val - max_val)

\* _normalize without max(0.0, min(1.0, ...))
Linear(value, min_val, max_val) ==
    IF max_val = min_val THEN 500
    ELSE Quotient(value, min_val, max_val)

\* _normalize, in thousandths
Normalize(value, min_val, max_val) ==
    IF max_val = min_val THEN 500
    ELSE LET x == Quotient(value, min_val, max_val)
         IN  IF x < 0 THEN 0 ELSE IF x > 1000 THEN 1000 ELSE x

\* _create_feature_vector: every name the extractors return is in
\* FEATURE_DEFINITIONS, so each value is normalized
RECURSIVE CreateFeatureVector(_, _)
CreateFeatureVector(features, k) ==
    IF k > Len(Categories) THEN <<>>
    ELSE LET category == Categories[k]
             names == FeatureNames[category]
         IN  [i \in 1..Len(names) |->
                 LET definition == FEATURE_DEFINITIONS[category][names[i]]
                 IN  Normalize(features[category][names[i]],
                               definition.min, definition.max)]
             \o CreateFeatureVector(features, k + 1)

\* extract_student_features for a student id that is an ObjectId: twin is the
\* StudentTwin document found ({} when there is none).
ExtractStudentFeatures(twin, monitoring, submissions, hints) ==
    LET features ==
            [behavioral |-> ExtractBehavioralFeatures(twin, monitoring),
             performance |-> ExtractPerformanceFeatures(twin, submissions),
             ai_interaction |-> ExtractAiFeatures(twin, hints),
             temporal |-> ExtractTemporalFeatures(twin, submissions)]
    IN  [behavioral |-> features.behavioral,
         performance |-> features.performance,
         ai_interaction |-> features.ai_interaction,
         temporal |-> features.temporal,
         feature_vector |-> CreateFeatureVector(features, 1)]

\* A call of extract_student_features: what the collections hold for the
\* student.
ExtractInputs ==
    {[op |-> "extract_student_features", at |-> "input", c |-> "", heur |-> FALSE,
      model |-> NoKey, twin |-> t, monitoring |-> m, submissions |-> u, hints |-> h] :
        t \in Twins, m \in Monitorings, u \in Submissions, h \in HintRequests}

InitFeatures == Quiet /\ req \in ExtractInputs

ExtractFeatures ==
    /\ req.at = "input"
    /\ resp.op = "none"
    /\ resp' = [NoResponse EXCEPT
                   !.op = req.op, !.result = "ok", !.tick = 1,
                   !.value = ExtractStudentFeatures(req.twin, req.monitoring,
                                                    req.submissions, req.hints)]
    /\ UNCHANGED <<registry, handles, inference, enabled, models, model_versions,
                   use_heuristics, feedback_log, loading, req>>

NextFeatures == ExtractFeatures

SpecFeatures == InitFeatures /\ [][NextFeatures]_vars

\* The statistic of the twin summary that stands for a feature ("": none).
TwinStatistic(name) ==
    IF name = "avg_typing_speed" THEN "behavioralData.avgTypingSpeed"
    ELSE IF name = "avg_thinking_pause" THEN "behavioralData.avgThinkingPause"
    ELSE IF name = "error_frequency" THEN "behavioralData.errorFrequency"
    ELSE IF name = "hint_request_rate" THEN "aiDependencyPattern.hintRequestRate"
    ELSE IF name = "avg_hint_level" THEN "aiDependencyPattern.avgHintLevel"
    ELSE IF name = "ai_dependency_score" THEN "behavioralData.aiDependencyScore"
    ELSE IF name = "learning_velocity" THEN "learningVelocity"
    ELSE ""

\* The value a feature falls back to: the twin's statistic when the twin has
\* it, the default of FEATURE_DEFINITIONS otherwise.
FallBack(twin, category, name) ==
    IF \E stat \in twin : stat[1] = TwinStatistic(name)
    THEN (CHOOSE stat \in twin : stat[1] = TwinStatistic(name))[2]
    ELSE FEATURE_DEFINITIONS[category][name].default

\* The extraction met no record in the window.
Sparse == req.monitoring = <<>> /\ req.submissions = <<>> /\ req.hints = <<>>

\* The features of the categories for which `except` is not excepted fall back.
FallsBackBut(except) ==
    \A k \in 1..Len(Categories) :
        \A i \in 1..Len(FeatureNames[Categories[k]]) :
            LET category == Categories[k]
                name == FeatureNames[category][i]
            IN  name \notin except =>
                    resp.value[category][name] = FallBack(req.twin, category, name)

\* C20: with no monitoring, submission or hint record in the window
\* extract_student_features returns a complete FeatureSet in which every
\* feature is the twin summary's statistic when the twin has one and the
\* default of FEATURE_DEFINITIONS otherwise.
SparseFeaturesFallBack ==
    (resp.op = "extract_student_features" /\ Sparse) =>
        /\ resp.result = "ok"
        /\ Len(resp.value.feature_vector) = 22
        /\ FallsBackBut({})

\* C20, the part the code keeps: every feature but attempt_count and
\* days_since_last_session falls back as stated.
SparseFeaturesFallBackButTwo ==
    (resp.op = "extract_student_features" /\ Sparse) =>
        /\ resp.result = "ok"
        /\ Len(resp.value.feature_vector) = 22
        /\ FallsBackBut({"attempt_count", "days_since_last_session"})


\* The FeatureDefinitions in the order FEATURE_DEFINITIONS declares them.
DeclaredFeatures ==
    <<<<"behavioral", "avg_typing_speed">>, <<"behavioral", "avg_thinking_pause">>,
      <<"behavioral", "paste_frequency">>, <<"behavioral", "active_time_percentage">>,
      <<"behavioral", "tab_switch_rate">>, <<"behavioral", "idle_time_percentage">>,
      <<"behavioral", "error_frequency">>,
      <<"performance", "success_rate">>, <<"performance", "avg_score">>,
      <<"performance", "difficulty_level">>, <<"performance", "time_per_problem">>,
      <<"performance", "attempt_count">>, <<"performance", "completion_rate">>,
      <<"ai_interaction", "hint_request_rate">>, <<"ai_interaction", "avg_hint_level">>,
      <<"ai_interaction", "ai_dependency_score">>,
      <<"ai_interaction", "hints_before_success">>,
      <<"ai_interaction", "comprehension_pass_rate">>,
      <<"temporal", "session_duration">>, <<"temporal", "days_since_last_session">>,
      <<"temporal", "learning_velocity">>, <<"temporal", "weekly_sessions">>>>

\* The i-th entry of the vector is the i-th declared feature, normalized, and
\* lies in [0,1] (thousandths).
EntryIsDeclared(value, i) ==
    LET category == DeclaredFeatures[i][1]
        name == DeclaredFeatures[i][2]
        definition == FEATURE_DEFINITIONS[category][name]
        lo == IF definition.min <= value[category][name]
              THEN value[category][name] ELSE definition.min
        raw == IF lo <= definition.max THEN lo ELSE definition.max
    IN  /\ value.feature_vector[i] \in 0..1000
        /\ value.feature_vector[i] =
               (1000 * (raw - definition.min)) \div (definition.max - definition.min)

\* C21: in every extraction branch the feature vector has exactly one entry
\* per FeatureDefinition, in the order behavioral, performance, ai_interaction,
\* temporal and declaration order within each group, and every entry lies in
\* [0,1].
VectorFollowsDeclaration ==
    resp.op = "extract_student_features" =>
        /\ Len(resp.value.feature_vector) = Len(DeclaredFeatures)
        /\ \A i \in 1..Len(DeclaredFeatures) : EntryIsDeclared(resp.value, i)

\* C21's case: an extraction from windowed records in which a raw value lies
\* beyond its declared maximum (45 days since the last session, maximum 30)
\* and the twin supplies statistics.
VectorFollowsDeclarationWitness ==
    /\ resp.op = "extract_student_features"
    /\ req.monitoring # <<>> /\ req.submissions # <<>> /\ req.hints # <<>>
    /\ req.twin = FullTwin
    /\ resp.value.temporal.days_since_last_session > 300
    /\ resp.value.feature_vector[20] = 1000
    /\ resp.value.feature_vector[1] = 400


(***************************************************************************)
(* FeatureExtractor._normalize on its own: raw values below, between and   *)
(* above the two edges, the edges in either order or equal.                *)
(***************************************************************************)
NormalizeInputs ==
    {[op |-> "_normalize", at |-> "input", c |-> "", heur |-> FALSE, model |-> NoKey,
      raw |-> v, min_val |-> lo, max_val |-> hi] :
        v \in (0 - 2)..MaxRaw, lo \in 0..MaxEdge, hi \in 0..MaxEdge}

InitNormalize == Quiet /\ req \in NormalizeInputs

\* One more call of _normalize on the same arguments; the results are kept in
\* the order of the calls.
CallNormalize ==
    /\ req.op = "_normalize"
    /\ Len(resp.value) < 2
    /\ resp' = [NoResponse EXCEPT
                   !.op = req.op, !.result = "ok", !.tick = 1 - resp.tick,
                   !.value = Append(resp.value,
                                    Normalize(req.raw, req.min_val, req.max_val))]
    /\ UNCHANGED <<registry, handles, inference, enabled, models, model_versions,
                   use_heuristics, feedback_log, loading, req>>

NextNormalize == CallNormalize

SpecNormalize == InitNormalize /\ [][NextNormalize]_vars

\* C22: _normalize returns a value in [0,1] for every input: 0 for
\* value <= min and 1 for value >= max when min < max, the linear position in
\* between, 0.5 when min = max, and the same result when applied to the same
\* raw value again.
NormalizeClamps ==
    resp.op = "_normalize" =>
        \A k \in 1..Len(resp.value) :
            LET r == resp.value[k]
                v == req.raw
                lo == req.min_val
                hi == req.max_val
            IN  /\ resp.result = "ok"
                /\ r \in 0..1000
                /\ (lo < hi /\ v <= lo) => r = 0
                /\ (lo < hi /\ v >= hi) => r = 1000
                /\ (lo < hi /\ lo < v /\ v < hi) =>
                       /\ r * (hi - lo) <= 1000 * (v - lo)
                       /\ 1000 * (v - lo) < (r + 1) * (hi - lo)
                /\ lo = hi => r = 500
                /\ r = resp.value[1]

\* C22's case: a value above the upper edge normalized twice.
NormalizeClampsWitness ==
    /\ resp.op = "_normalize"
    /\ Len(resp.value) = 2
    /\ req.min_val < req.max_val
    /\ req.raw > req.max_val
    /\ resp.value = <<1000, 1000>>


(***************************************************************************)
(* ModelInference.get_personalized_hint.  The profile is the FeatureSet    *)
(* the extractor returns for the student; numbers stay in tenths, the      *)
(* suggested level is a plain number.                                      *)
(***************************************************************************)
\* The twins of the students asking for a hint: the average hint level and
\* the dependency score the twin document holds.
HintTwins ==
    {{<<"aiDependencyPattern.avgHintLevel", level>>,
      <<"behavioralData.aiDependencyScore", dependency>>} :
        level \in {0, 30, 50, 70}, dependency \in {1, 3, 8}}

\* The submissions of the window: none, or one that passed.
HintSubmissions ==
    {<<>>, <<[status |-> "passed", score |-> 90, activityId |-> "a3", age |-> 1]>>}

AttemptNumbers == {1, 3}

TimesSpent == {0, 600, 700}

HintInputs ==
    {[op |-> "get_personalized_hint", at |-> "input", c |-> "", heur |-> FALSE,
      model |-> NoKey, extract |-> e, twin |-> t, monitoring |-> <<>>,
      submissions |-> u, hints |-> h, attempt_number |-> a, time_spent |-> d] :
        e \in Extractions, t \in HintTwins, u \in HintSubmissions,
        h \in HintRequests, a \in AttemptNumbers, d \in TimesSpent}

\* int(x) of a number in tenths that is not negative
Truncate(x) == x \div 10

Max(a, b) == IF a >= b THEN a ELSE b

Min(a, b) == IF a <= b THEN a ELSE b

\* _default_hint_suggestion
DefaultHintSuggestion ==
    [suggested_level |-> 2, encourage_independence |-> FALSE,
     reasoning |-> "Using default hint level"]

\* the body of get_personalized_hint once the features are there
PersonalizedHint(features, attempt_number, time_spent) ==
    LET ai_dependency == features.ai_interaction.ai_dependency_score
        success_rate == features.performance.success_rate
        avg_hint_level == features.ai_interaction.avg_hint_level
        first == IF ai_dependency > 6
                 THEN [suggested_level |-> Max(1, Truncate(avg_hint_level) - 1),
                       encourage_independence |-> TRUE,
                       reasoning |-> "Encouraging independent problem-solving"]
                 ELSE IF ai_dependency < 3 /\ success_rate > 700
                 THEN [suggested_level |-> Min(5, Truncate(avg_hint_level) + 1),
                       encourage_independence |-> FALSE,
                       reasoning |-> "Strong independent work - full assistance available"]
                 ELSE [suggested_level |-> Truncate(avg_hint_level),
                       encourage_independence |-> FALSE,
                       reasoning |-> "Standard assistance level"]
        second == IF time_spent > 600
                  THEN [first EXCEPT
                           !.suggested_level = Min(first.suggested_level + 1, 5),
                           !.reasoning = "Extended struggle - offering more help"]
                  ELSE first
    IN  IF attempt_number >= 3
        THEN [second EXCEPT
                 !.suggested_level = Min(second.suggested_level + 1, 5),
                 !.reasoning = "Multiple attempts - providing additional guidance"]
        ELSE second

InitHints == Quiet /\ req \in HintInputs

\* get_personalized_hint: the suggestion, or the default one when the
\* extraction raised or returned nothing
GetPersonalizedHint ==
    /\ req.op = "get_personalized_hint"
    /\ resp.op = "none"
    /\ resp' = [NoResponse EXCEPT
                   !.op = req.op, !.result = "ok", !.tick = 1,
                   !.path = IF req.extract = "ok" THEN "computed" ELSE "default",
                   !.value =
                       IF req.extract = "ok"
                       THEN PersonalizedHint(
                                ExtractStudentFeatures(req.twin, req.monitoring,
                                                       req.submissions, req.hints),
                                req.attempt_number, req.time_spent)
                       ELSE DefaultHintSuggestion]
    /\ UNCHANGED <<registry, handles, inference, enabled, models, model_versions,
                   use_heuristics, feedback_log, loading, req>>

NextHints == GetPersonalizedHint

SpecHints == InitHints /\ [][NextHints]_vars


\* The profile a suggestion was computed from.
HintProfile ==
    ExtractStudentFeatures(req.twin, req.monitoring, req.submissions, req.hints)

\* The worked case: average hint level 3 and dependency 0.8 give level 2 with
\* encourage_independence, and level 3 when 700 seconds were spent.
HintWorkedCase ==
    (/\ HintProfile.ai_interaction.avg_hint_level = 30
     /\ HintProfile.ai_interaction.ai_dependency_score = 8
     /\ req.attempt_number = 1) =>
        /\ resp.value.encourage_independence
        /\ req.time_spent = 0 => resp.value.suggested_level = 2
        /\ req.time_spent = 700 => resp.value.suggested_level = 3

\* C23: get_personalized_hint returns a suggested_level in [1,5] for every
\* feature profile, attempt number and time spent; dependency above 0.6 sets
\* encourage_independence; for average hint level 3 and dependency 0.8 it
\* returns 2, and 3 when the time spent is 700.
HintLevelInRange ==
    resp.op = "get_personalized_hint" =>
        /\ resp.value.suggested_level \in 1..5
        /\ resp.path = "computed" =>
               /\ resp.value.encourage_independence
                      = (HintProfile.ai_interaction.ai_dependency_score > 6)
               /\ HintWorkedCase

\* C23, the part the code keeps: the same for the profiles whose average hint
\* level lies within the declared 1 to 5.
HintLevelInRangeForDeclaredLevels ==
    (/\ resp.op = "get_personalized_hint"
     /\ resp.path = "computed" => HintProfile.ai_interaction.avg_hint_level \in 10..50) =>
        /\ resp.value.suggested_level \in 1..5
        /\ resp.path = "computed" =>
               /\ resp.value.encourage_independence
                      = (HintProfile.ai_interaction.ai_dependency_score > 6)
               /\ HintWorkedCase


(***************************************************************************)
(* ModelInference.detect_anomalies on its two paths.  The features are in  *)
(* tenths, the weights and the score too.                                  *)
(***************************************************************************)
\* The five features the threshold rules read, on either side of each
\* threshold.
AnomalyFeatures ==
    [paste_frequency : {50, 60}, tab_switch_rate : {200, 250},
     ai_dependency_score : {1, 7, 8}, success_rate : {290, 300, 500},
     days_since_last_session : {10, 140, 150}]

\* The rules of _detect_with_heuristics in the order of their if statements.
AnomalyRules ==
    <<[type |-> "high_paste_frequency", severity |-> "medium", weight |-> 3],
      [type |-> "excessive_tab_switches", severity |-> "medium", weight |-> 3],
      [type |-> "high_ai_dependency", severity |-> "low", weight |-> 2],
      [type |-> "low_performance", severity |-> "high", weight |-> 4],
      [type |-> "extended_inactivity", severity |-> "medium", weight |-> 3]>>

\* The condition of each if statement.
Fires(type, features) ==
    IF type = "high_paste_frequency" THEN features.paste_frequency > 50
    ELSE IF type = "excessive_tab_switches" THEN features.tab_switch_rate > 200
    ELSE IF type = "high_ai_dependency" THEN features.ai_dependency_score > 7
    ELSE IF type = "low_performance" THEN features.success_rate < 300
    ELSE features.days_since_last_session > 140

\* The advice of _generate_recommendations by anomaly type.
Advice ==
    [high_paste_frequency |->
         "Try solving problems without copying code from external sources",
     excessive_tab_switches |->
         "Stay focused on the current problem before switching contexts",
     high_ai_dependency |->
         "Challenge yourself by attempting problems before requesting hints",
     low_performance |->
         "Consider reviewing fundamentals or trying easier problems first",
     extended_inactivity |->
         "Regular practice helps maintain skills - try to code more frequently"]

\* _generate_recommendations: a type outside the if/elif chain adds nothing
RECURSIVE GenerateRecommendations(_)
GenerateRecommendations(anomalies) ==
    IF anomalies = <<>> THEN <<>>
    ELSE (IF Head(anomalies).type \in DOMAIN Advice
          THEN <<Advice[Head(anomalies).type]>> ELSE <<>>)
         \o GenerateRecommendations(Tail(anomalies))

\* total_score after the first k rules
RECURSIVE TotalScore(_, _)
TotalScore(features, k) ==
    IF k = 0 THEN 0
    ELSE TotalScore(features, k - 1)
         + (IF Fires(AnomalyRules[k].type, features) THEN AnomalyRules[k].weight ELSE 0)

\* the anomalies list after the first k rules
RECURSIVE Anomalies(_, _)
Anomalies(features, k) ==
    IF k = 0 THEN <<>>
    ELSE Anomalies(features, k - 1)
         \o (IF Fires(AnomalyRules[k].type, features)
             THEN <<[type |-> AnomalyRules[k].type,
                     severity |-> AnomalyRules[k].severity]>>
             ELSE <<>>)

\* total_score > 0.5
IsAnomalousAbove(total_score) == total_score > 5

\* total_score >= 0.5
IsAnomalous(total_score) == total_score >= 5

\* _detect_with_heuristics
DetectWithHeuristics(features) ==
    LET anomalies == Anomalies(features, Len(AnomalyRules))
        total_score == TotalScore(features, Len(AnomalyRules))
    IN  [is_anomalous |-> IsAnomalous(total_score),
         score |-> Min(total_score, 10),
         types |-> anomalies,
         recommendations |-> GenerateRecommendations(anomalies),
         model_version |-> HeuristicV1]

\* The names classify_anomaly_type is given for the features.
FeatureLabels ==
    <<"typing_speed", "thinking_pause", "paste_freq", "active_time",
      "tab_switches", "success_rate", "avg_score", "difficulty",
      "attempts", "hint_rate", "hint_level", "dependency_score",
      "session_duration", "days_since_last", "velocity">>

\* What the detector answers for a feature array: the score of the VAE and
\* the indexes of the features classify_anomaly_type finds contributing (at
\* most three, those whose reconstruction error exceeds 0.3).
Detections ==
    [score : {3, 9}, top : {<<>>, <<3>>, <<6, 5>>}]

\* _detect_with_model for a detector that is there; the score is anomalous
\* above the detector's threshold 0.7
DetectWithModel(detection, version) ==
    LET is_anomalous == detection.score > 7
        anomaly_types ==
            IF is_anomalous
            THEN [i \in 1..Len(detection.top) |->
                     [type |-> FeatureLabels[detection.top[i]], severity |-> "medium"]]
            ELSE <<>>
    IN  [is_anomalous |-> is_anomalous,
         score |-> detection.score,
         types |-> anomaly_types,
         recommendations |-> GenerateRecommendations(anomaly_types),
         model_version |-> version]

\* A detect_anomalies call: the features extracted, and what the call read
\* from use_heuristics and models.
AnomalyInputs ==
    {[op |-> "detect_anomalies", at |-> "input", c |-> "anomaly_detection",
      heur |-> h, model |-> m, features |-> f] :
        h \in BOOLEAN,
        m \in {NoneModel, [kind |-> "model", mt |-> "anomaly", version |-> V100,
                           ckpt |-> <<>>]},
        f \in AnomalyFeatures}

InitAnomalies == Quiet /\ req \in AnomalyInputs

\* detect_anomalies with features at hand
DetectAnomalies ==
    /\ req.op = "detect_anomalies"
    /\ resp.op = "none"
    /\ \E detection \in Detections :
          resp' = [NoResponse EXCEPT
                      !.op = req.op, !.result = "ok", !.tick = 1,
                      !.c = req.c,
                      !.path = IF ~req.heur /\ req.model.kind = "model"
                               THEN "trained" ELSE "heuristic",
                      !.value =
                          IF ~req.heur /\ req.model.kind = "model"
                          THEN DetectWithModel(detection, req.model.version)
                          ELSE DetectWithHeuristics(req.features)]
    /\ UNCHANGED <<registry, handles, inference, enabled, models, model_versions,
                   use_heuristics, feedback_log, loading, req>>

NextAnomalies == DetectAnomalies

SpecAnomalies == InitAnomalies /\ [][NextAnomalies]_vars


\* The type names of a result's types list.
TypeNames(result) == [i \in 1..Len(result.types) |-> result.types[i].type]

\* The weights of the rules that fire on the features, summed.
FiredWeight(f) ==
    (IF f.paste_frequency > 50 THEN 3 ELSE 0)
    + (IF f.tab_switch_rate > 200 THEN 3 ELSE 0)
    + (IF f.ai_dependency_score > 7 THEN 2 ELSE 0)
    + (IF f.success_rate < 300 THEN 4 ELSE 0)
    + (IF f.days_since_last_session > 140 THEN 3 ELSE 0)

\* One type per rule that fires, in rule order.
FiredTypes(f) ==
    (IF f.paste_frequency > 50 THEN <<"high_paste_frequency">> ELSE <<>>)
    \o (IF f.tab_switch_rate > 200 THEN <<"excessive_tab_switches">> ELSE <<>>)
    \o (IF f.ai_dependency_score > 7 THEN <<"high_ai_dependency">> ELSE <<>>)
    \o (IF f.success_rate < 300 THEN <<"low_performance">> ELSE <<>>)
    \o (IF f.days_since_last_session > 140 THEN <<"extended_inactivity">> ELSE <<>>)

\* paste_frequency 6, tab_switch_rate 25, ai_dependency 0.1, success_rate 50,
\* days_since 1
WorkedAnomaly ==
    [paste_frequency |-> 60, tab_switch_rate |-> 250, ai_dependency_score |-> 1,
     success_rate |-> 500, days_since_last_session |-> 10]

\* C24: the heuristic anomaly detector sums the weights of the rules that
\* fire, flags is_anomalous exactly when the sum is >= 0.5, reports the score
\* min(sum, 1.0) and lists one type per fired rule in rule order; the worked
\* case is anomalous with score 0.6 and types high_paste_frequency,
\* excessive_tab_switches.
HeuristicSumsFiredRules ==
    (resp.op = "detect_anomalies" /\ resp.path = "heuristic") =>
        /\ resp.value.is_anomalous = (FiredWeight(req.features) >= 5)
        /\ resp.value.score = Min(FiredWeight(req.features), 10)
        /\ TypeNames(resp.value) = FiredTypes(req.features)
        /\ req.features = WorkedAnomaly =>
               /\ resp.value.is_anomalous
               /\ resp.value.score = 6
               /\ TypeNames(resp.value)
                      = <<"high_paste_frequency", "excessive_tab_switches">>

\* C24's case: the worked case answered on the heuristic path.
HeuristicSumsFiredRulesWitness ==
    /\ resp.op = "detect_anomalies"
    /\ resp.path = "heuristic"
    /\ req.features = WorkedAnomaly
    /\ resp.value.is_anomalous
    /\ resp.value.score = 6

\* Every detected type of the result has its advice in the recommendations.
AdviceForEveryType(result) ==
    /\ Len(result.recommendations) = Len(result.types)
    /\ \A i \in 1..Len(result.types) :
          /\ result.types[i].type \in DOMAIN Advice
          /\ result.recommendations[i] = Advice[result.types[i].type]

\* C25: on both the trained and the heuristic anomaly path every detected
\* type in the result's types list has its advice from the type-to-advice
\* table in the recommendations list: a non-empty types list comes with one
\* recommendation per detected type.
RecommendationsCoverTypes ==
    resp.op = "detect_anomalies" => AdviceForEveryType(resp.value)

\* C25, the part the code keeps: the heuristic path.
HeuristicRecommendationsCoverTypes ==
    (resp.op = "detect_anomalies" /\ resp.path = "heuristic") =>
        AdviceForEveryType(resp.value)


(***************************************************************************)
(* ModelInference._predict_with_heuristics.  Percentages are in tenths of  *)
(* a percent, the dependency in tenths, days are whole days; the           *)
(* probability is in millionths until it is rounded to thousandths.        *)
(***************************************************************************)
\* The features the weighted sum reads.  The twin's learning velocity and
\* dependency score reach it as the document holds them.
PredictFeatures ==
    [success_rate : {0, 500, 800, 1000}, avg_score : {0, 700, 1000},
     ai_dependency_score : {0, 2, 10, 12}, learning_velocity : {0, 498, 500, 600, 1500},
     days_since_last_session : {0, 2, 7, 10}]

\* The weighted combination, in millionths
WeightedCombination(f) ==
    300 * f.success_rate
    + 250 * f.avg_score
    + 15000 * (10 - f.ai_dependency_score)
    + 200 * f.learning_velocity
    + (100000 * (7 - Min(f.days_since_last_session, 7))) \div 7

\* the weighted combination as it is
Unclamped(probability) == probability

\* max(0.0, min(1.0, probability))
Clamp(probability) == Max(0, Min(1000000, probability))

\* round(probability, 3): thousandths
Round3(probability) == (probability + 500) \div 1000

\* _predict_with_heuristics: the rounded probability and the risk level of
\* the probability before rounding
PredictWithHeuristics(f) ==
    LET probability == Clamp(WeightedCombination(f))
    IN  [probability |-> Round3(probability),
         exact |-> probability,
         risk_level |-> GetRiskLevel(probability \div 1000)]

PredictInputs ==
    {[op |-> "predict_success", at |-> "input", c |-> "behavior_prediction",
      heur |-> TRUE, model |-> NoneModel, features |-> f] : f \in PredictFeatures}

InitPredict == Quiet /\ req \in PredictInputs

\* predict_success on the heuristic path with features at hand
PredictSuccess ==
    /\ req.op = "predict_success"
    /\ resp.op = "none"
    /\ resp' = [NoResponse EXCEPT
                   !.op = req.op, !.result = "ok", !.tick = 1, !.c = req.c,
                   !.path = "heuristic",
                   !.value = PredictWithHeuristics(req.features)]
    /\ UNCHANGED <<registry, handles, inference, enabled, models, model_versions,
                   use_heuristics, feedback_log, loading, req>>

NextPredict == PredictSuccess

SpecPredict == InitPredict /\ [][NextPredict]_vars

\* The sum of the claim in millionths, each term cut to a whole millionth
\* (only the days term is not whole).
WeightedSum(f) ==
    (30 * f.success_rate * 10000) \div 1000
    + (25 * f.avg_score * 10000) \div 1000
    + 15 * (10 - f.ai_dependency_score) * 1000
    + (20 * f.learning_velocity * 10000) \div 1000
    + (IF f.days_since_last_session >= 7 THEN 0
       ELSE (100000 * (7 - f.days_since_last_session)) \div 7)

\* success_rate 80, avg_score 70, ai_dependency 0.2, learning_velocity 60,
\* days_since 2
WorkedPrediction ==
    [success_rate |-> 800, avg_score |-> 700, ai_dependency_score |-> 2,
     learning_velocity |-> 600, days_since_last_session |-> 2]

RegisterKeepsProduction ==
    [][(last'.op = "register" /\ last'.result = "ok") =>
          /\ ~Entry(index'[last'.mt], last'.version).is_production
          /\ GetProductionVersion(index', last'.mt)
                 = GetProductionVersion(index, last'.mt)]_vars

\* C27, the part the code keeps: a registration under a version the index
\* does not hold yet leaves the production version as it was.
RegisterOfNewVersionKeepsProduction ==
    [][(last'.op = "register" /\ last'.result = "ok" /\ ~last'.existed) =>
          /\ ~Entry(index'[last'.mt], last'.version).is_production
          /\ GetProductionVersion(index', last'.mt)
                 = GetProductionVersion(index, last'.mt)]_vars


\* The versions of a type that are in the index and have a whole
\* metadata.json in their directory.
WithMetadata(mt) ==
    {v \in Versions(index[mt]) :
        /\ v \in DirVersions(disk[mt])
        /\ Dir(disk[mt], v).meta \notin {NoMeta, PartialMeta}}

\* C28: after any sequence of register_model and set_production calls the
\* production flag in each version's own metadata.json equals that version's
\* is_production flag in the index.
MetadataFlagMatchesIndex ==
    \A mt \in Types :
        \A v \in WithMetadata(mt) :
            Dir(disk[mt], v).meta.is_production = Entry(index[mt], v).is_production

\* C28, what the code keeps: the flag of a metadata.json is the False it was
\* written with.
MetadataFlagStaysFalse ==
    \A mt \in Types :
        \A v \in WithMetadata(mt) : ~Dir(disk[mt], v).meta.is_production


(***************************************************************************)
(* ModelInference.get_models_status                                        *)
(***************************************************************************)
\* get_models_status on the bindings B
GetModelsStatus(B) ==
    [name \in Capabilities |->
        [loaded |-> B.models[name].kind # "absent",
         version |-> IF B.model_versions[name] = None
                     THEN <<"not-loaded">> ELSE B.model_versions[name],
         type |-> IF UseHeuristics(B, name) THEN "heuristic" ELSE "trained"]]

\* C29: after any sequence of loads and reload_models calls run one at a
\* time, each loaded capability's binding is consistent: use_heuristics is
\* true if and only if the bound predictor is None if and only if
\* model_version is heuristic-v1, and get_models_status reports the type and
\* the version string in agreement with that binding.
BindingIsConsistent ==
    \A c \in Capabilities :
        models[c].kind # "absent" =>
            /\ (use_heuristics[c] = "True") <=> (models[c] = NoneModel)
            /\ (models[c] = NoneModel) <=> (model_versions[c] = HeuristicV1)
            /\ use_heuristics[c] \in {"True", "False"}
            /\ GetModelsStatus(Bindings)[c].loaded
            /\ GetModelsStatus(Bindings)[c].version = model_versions[c]
            /\ GetModelsStatus(Bindings)[c].type
                   = (IF models[c] = NoneModel THEN "heuristic" ELSE "trained")

\* C29's case: a reload took a capability from its trained predictor back to
\* the heuristic while another one stayed trained.
BindingIsConsistentWitness ==
    /\ resp.op = "reload"
    /\ resp.c = "behavior_prediction"
    /\ Production(ServiceIndex["behavior"]) # {}
    /\ models["behavior_prediction"] = NoneModel
    /\ GetModelsStatus(Bindings)["behavior_prediction"].type = "heuristic"
    /\ models["anomaly_detection"].kind = "model"
    /\ GetModelsStatus(Bindings)["anomaly_detection"].type = "trained"


(***************************************************************************)
(* record_feedback called from two request threads of the Flask server     *)
(* (app.run serves each request in its own thread; record_feedback takes   *)
(* no lock).  A call is four steps: the append, the length test, the       *)
(* message of _save_feedback_log that counts the batch, and the assignment *)
(* of the empty list.  The calls and their counts are kept in req.         *)
(***************************************************************************)
Threads == {"t1", "t2"}

NoThreads ==
    [op |-> "record_feedback", at |-> "idle", c |-> "", heur |-> FALSE,
     model |-> NoKey, pcs |-> [t \in Threads |-> "idle"],
     batch |-> [t \in Threads |-> 0], calls |-> 0, completed |-> 0, flushed |-> 0]

ThreadState == IF req.op = "record_feedback" THEN req ELSE NoThreads

\* feedback['recorded_at'] = ...; self.feedback_log.append(feedback)
FeedbackAppend(t) ==
    /\ inference = "up"
    /\ ThreadState.pcs[t] = "idle"
    /\ ThreadState.calls < MaxFeedback
    /\ LET n == ThreadState.calls + 1
       IN  /\ feedback_log' = Append(feedback_log, [feedback |-> n, recorded_at |-> n])
           /\ req' = [ThreadState EXCEPT !.pcs[t] = "appended", !.calls = n]
    /\ UNCHANGED <<registry, handles, inference, enabled, models, model_versions,
                   use_heuristics, loading, resp>>

\* if len(self.feedback_log) >= 100
FeedbackTest(t) ==
    /\ ThreadState.pcs[t] = "appended"
    /\ req' = IF ShouldFlush(Len(feedback_log))
              THEN [ThreadState EXCEPT !.pcs[t] = "saving"]
              ELSE [ThreadState EXCEPT !.pcs[t] = "idle", !.completed = @ + 1]
    /\ UNCHANGED <<registry, handles, inference, enabled, models, model_versions,
                   use_heuristics, feedback_log, loading, resp>>

\* logger.info(f"Saving {len(self.feedback_log)} feedback entries")
FeedbackSaving(t) ==
    /\ ThreadState.pcs[t] = "saving"
    /\ req' = [ThreadState EXCEPT !.pcs[t] = "logged",
                                  !.batch[t] = Len(feedback_log)]
    /\ UNCHANGED <<registry, handles, inference, enabled, models, model_versions,
                   use_heuristics, feedback_log, loading, resp>>

\* self.feedback_log = []
FeedbackClear(t) ==
    /\ ThreadState.pcs[t] = "logged"
    /\ feedback_log' = <<>>
    /\ req' = [ThreadState EXCEPT !.pcs[t] = "idle", !.batch[t] = 0,
                                  !.flushed = @ + ThreadState.batch[t],
                                  !.completed = @ + 1]
    /\ UNCHANGED <<registry, handles, inference, enabled, models, model_versions,
                   use_heuristics, loading, resp>>

NextThreads ==
    \/ inference = "down" /\ StartService(Capabilities, "")
    \/ \E t \in Threads : FeedbackAppend(t)
    \/ \E t \in Threads : FeedbackTest(t)
    \/ \E t \in Threads : FeedbackSaving(t)
    \/ \E t \in Threads : FeedbackClear(t)

SpecThreads == Init /\ [][NextThreads]_vars

\* The calls under way whose payload is appended and whose thread is not in
\* _save_feedback_log.
Appended == Cardinality({t \in Threads : ThreadState.pcs[t] = "appended"})

\* C30: under concurrent record_feedback calls no feedback entry is lost:
\* whenever no call is under way, the number of flushed entries plus the
\* buffer length equals the number of completed record_feedback calls.
NoFeedbackLost ==
    (\A t \in Threads : ThreadState.pcs[t] = "idle") =>
        ThreadState.flushed + Len(feedback_log) = ThreadState.completed

\* C30, the part the code keeps: until a thread enters _save_feedback_log
\* the buffer holds the payload of every call made.
FeedbackKeptUntilFlush ==
    (/\ ThreadState.flushed = 0
     /\ \A t \in Threads : ThreadState.pcs[t] \in {"idle", "appended"}) =>
        Len(feedback_log) = ThreadState.completed + Appended

=============================================================================
